---------------------------- MODULE Spec2Model ----------------------------
(***************************************************************************)
(* Model of the price-search backend (src/unnamed/part_005): the handler   *)
(* of GET /v1/prices/search, its two process-wide caches, the shopping     *)
(* provider call and the two geocoding provider calls.                     *)
(*                                                                         *)
(* Strings are sequences of one-character strings, so that the regular     *)
(* expressions of the source are computed character by character.  Prices  *)
(* are integers in cents.  Coordinates are integer degrees.                *)
(***************************************************************************)
EXTENDS Integers, Sequences, FiniteSets, TLC

(***************************************************************************)
(* Characters and strings                                                  *)
(***************************************************************************)
UpperChars == <<"A","B","C","D","E","F","G","H","I","J","K","L","M",
                "N","O","P","Q","R","S","T","U","V","W","X","Y","Z">>

LowerChars == <<"a","b","c","d","e","f","g","h","i","j","k","l","m",
                "n","o","p","q","r","s","t","u","v","w","x","y","z">>

DigitChars == <<"0","1","2","3","4","5","6","7","8","9">>

Range(f) == {f[i] : i \in DOMAIN f}

UpperSet == Range(UpperChars)

LowerSet == Range(LowerChars)

DigitSet == Range(DigitChars)

\* the upper-case letter of each lower-case one, and back
ToUpperMap == [c \in LowerSet |-> UpperChars[CHOOSE i \in DOMAIN LowerChars : LowerChars[i] = c]]

ToLowerMap == [c \in UpperSet |-> LowerChars[CHOOSE i \in DOMAIN UpperChars : UpperChars[i] = c]]

\* String.prototype.toLowerCase / toUpperCase on one character
LowerChar(c) == IF c \in UpperSet THEN ToLowerMap[c] ELSE c

UpperChar(c) == IF c \in LowerSet THEN ToUpperMap[c] ELSE c

toLowerCase(s) == [i \in DOMAIN s |-> LowerChar(s[i])]

\* the regular-expression classes \w, \d and \s over the model's alphabet
WordChars == UpperSet \cup LowerSet \cup DigitSet \cup {"_"}

IsWordChar(c) == c \in WordChars

IsDigit(c) == c \in DigitSet

IsSpace(c) == c = " "

\* s with its first n characters removed
Drop(s, n) == IF n >= Len(s) THEN <<>> ELSE SubSeq(s, n + 1, Len(s))

Take(s, n) == IF n >= Len(s) THEN s ELSE SubSeq(s, 1, n)

\* literal lit matches s at position i (1-based), ignoring case
MatchAtCI(s, i, lit) ==
    /\ i >= 1
    /\ i + Len(lit) - 1 <= Len(s)
    /\ \A j \in 1..Len(lit) : LowerChar(s[i + j - 1]) = LowerChar(lit[j])

\* /lit/i.test(s)
ContainsCI(s, lit) == \E i \in 1..(Len(s) + 1) : MatchAtCI(s, i, lit)

\* /lit$/i.test(s)
EndsWithCI(s, lit) == Len(s) >= Len(lit) /\ MatchAtCI(s, Len(s) - Len(lit) + 1, lit)

\* number of whitespace characters of s starting at position i
RECURSIVE SpaceRun(_, _)
SpaceRun(s, i) == IF i <= Len(s) /\ IsSpace(s[i]) THEN 1 + SpaceRun(s, i + 1) ELSE 0

\* the literals of parts, in order and separated by \s*, match s at position i
RECURSIVE MatchPartsAt(_, _, _)
MatchPartsAt(s, i, parts) ==
    IF parts = <<>> THEN TRUE
    ELSE /\ MatchAtCI(s, i, Head(parts))
         /\ LET j == i + Len(Head(parts))
            IN  IF Len(parts) = 1 THEN TRUE
                ELSE MatchPartsAt(s, j + SpaceRun(s, j), Tail(parts))

\* /a\s*b\s*c/i.test(s) for parts <<a, b, c>>; anchored is the leading ^
TestPattern(s, parts, anchored) ==
    IF anchored THEN MatchPartsAt(s, 1, parts)
    ELSE \E i \in 1..(Len(s) + 1) : MatchPartsAt(s, i, parts)

\* String.prototype.trim
RECURSIVE TrimLeft(_)
TrimLeft(s) == IF s # <<>> /\ IsSpace(Head(s)) THEN TrimLeft(Tail(s)) ELSE s

RECURSIVE TrimRight(_)
TrimRight(s) ==
    IF s # <<>> /\ IsSpace(s[Len(s)]) THEN TrimRight(SubSeq(s, 1, Len(s) - 1)) ELSE s

trim(s) == TrimRight(TrimLeft(s))

\* \b between position i - 1 and position i of s
WordBoundary(s, i) ==
    LET before == i > 1 /\ i - 1 <= Len(s) /\ IsWordChar(s[i - 1])
        after  == i >= 1 /\ i <= Len(s) /\ IsWordChar(s[i])
    IN  before # after

(***************************************************************************)
(* Helpers: parsing and normalization (part_005, lines 103-152)            *)
(***************************************************************************)
Null == [t |-> "null"]

Num(v) == [t |-> "num", v |-> v]

Str(s) == [t |-> "str", v |-> s]

WwwDot == <<"w","w","w",".">>

TldCa == <<".","c","a">>

TldCom == <<".","c","o","m">>

TldNet == <<".","n","e","t">>

TldOrg == <<".","o","r","g">>

Supercentre == <<"s","u","p","e","r","c","e","n","t","r","e">>

Supercenter == <<"s","u","p","e","r","c","e","n","t","e","r">>

SufInc == <<"i","n","c">>

SufLtd == <<"l","t","d">>

SufCorp == <<"c","o","r","p">>

StrWalmart == <<"W","a","l","m","a","r","t">>

StrAmazon == <<"A","m","a","z","o","n">>

StrCostco == <<"C","o","s","t","c","o">>

StrLondonDrugs == <<"L","o","n","d","o","n"," ","D","r","u","g","s">>

StrSaveOnFoods == <<"S","a","v","e"," ","O","n"," ","F","o","o","d","s">>

StrSuperstore == <<"S","u","p","e","r","s","t","o","r","e">>

StrUnknown == <<"U","n","k","n","o","w","n">>

\* a product_link is absent (Null), not a URL ([t |-> "bad"]), or a URL whose
\* hostname is host; the result is a string or Null
domainFromUrl(urlStr) ==
    IF urlStr.t # "url" THEN Null
    ELSE IF Take(urlStr.host, 4) = WwwDot
         THEN Str(Drop(urlStr.host, 4))
         ELSE Str(urlStr.host)

\* .replace(/\.ca$|\.com$|\.net$|\.org$/i, "")
StripTld(s) ==
    IF EndsWithCI(s, TldCa) THEN Take(s, Len(s) - 3)
    ELSE IF EndsWithCI(s, TldCom) \/ EndsWithCI(s, TldNet) \/ EndsWithCI(s, TldOrg)
         THEN Take(s, Len(s) - 4)
         ELSE s

\* .replace(/supercentre|supercenter/gi, ""), scanning from position i
RECURSIVE StripSuper(_, _)
StripSuper(s, i) ==
    IF i > Len(s) THEN <<>>
    ELSE IF MatchAtCI(s, i, Supercentre) \/ MatchAtCI(s, i, Supercenter)
         THEN StripSuper(s, i + Len(Supercentre))
         ELSE <<s[i]>> \o StripSuper(s, i + 1)

\* .replace(/-/g, " ")
HyphensToSpaces(s) == [i \in DOMAIN s |-> IF s[i] = "-" THEN " " ELSE s[i]]

\* length of the match of /\bsuf\.?\b/i at position i of s, 0 if none
SuffixMatchLen(s, i, suf) ==
    LET j == i + Len(suf)
    IN  IF ~(WordBoundary(s, i) /\ MatchAtCI(s, i, suf)) THEN 0
        ELSE IF j <= Len(s) /\ s[j] = "." /\ WordBoundary(s, j + 1) THEN Len(suf) + 1
        ELSE IF WordBoundary(s, j) THEN Len(suf)
        ELSE 0

CorpMatchLen(s, i) ==
    IF SuffixMatchLen(s, i, SufInc) > 0 THEN SuffixMatchLen(s, i, SufInc)
    ELSE IF SuffixMatchLen(s, i, SufLtd) > 0 THEN SuffixMatchLen(s, i, SufLtd)
    ELSE SuffixMatchLen(s, i, SufCorp)

\* .replace(/\binc\.?\b|\bltd\.?\b|\bcorp\.?\b/gi, ""), scanning from position i
RECURSIVE StripCorp(_, _)
StripCorp(s, i) ==
    IF i > Len(s) THEN <<>>
    ELSE IF CorpMatchLen(s, i) > 0 THEN StripCorp(s, i + CorpMatchLen(s, i))
         ELSE <<s[i]>> \o StripCorp(s, i + 1)

\* .replace(/\s{2,}/g, " "), scanning from position i
RECURSIVE CollapseSpaces(_, _)
CollapseSpaces(s, i) ==
    IF i > Len(s) THEN <<>>
    ELSE IF SpaceRun(s, i) >= 2 THEN <<" ">> \o CollapseSpaces(s, i + SpaceRun(s, i))
         ELSE <<s[i]>> \o CollapseSpaces(s, i + 1)

\* the "specific store normalization" ifs of lines 126-131, applied in order
BrandOverride(n) ==
    LET n1 == IF ContainsCI(n, StrWalmart) THEN StrWalmart ELSE n
        n2 == IF ContainsCI(n1, StrAmazon) THEN StrAmazon ELSE n1
        n3 == IF ContainsCI(n2, StrCostco) THEN StrCostco ELSE n2
        n4 == IF TestPattern(n3, <<Take(StrLondonDrugs, 6), Drop(StrLondonDrugs, 7)>>, FALSE)
              THEN StrLondonDrugs ELSE n3
        n5 == IF TestPattern(n4, <<Take(StrSaveOnFoods, 4), SubSeq(StrSaveOnFoods, 6, 7),
                                   Drop(StrSaveOnFoods, 8)>>, FALSE)
              THEN StrSaveOnFoods ELSE n4
    IN  IF ContainsCI(n5, StrSuperstore) THEN StrSuperstore ELSE n5

\* .replace(/\b\w/g, (c) => c.toUpperCase())
TitleCase(s) ==
    [i \in DOMAIN s |->
        IF IsWordChar(s[i]) /\ WordBoundary(s, i) THEN UpperChar(s[i]) ELSE s[i]]

normalizeStoreName(raw) ==
    TitleCase(BrandOverride(trim(CollapseSpaces(
        StripCorp(HyphensToSpaces(StripSuper(StripTld(raw), 1)), 1), 1))))

ONLINE_ONLY_PATTERNS == <<
    [parts |-> <<<<"e","b","a","y">>>>, anchored |-> TRUE],
    [parts |-> <<<<"a","m","a","z","o","n">>>>, anchored |-> TRUE],
    [parts |-> <<<<"e","t","s","y">>>>, anchored |-> TRUE],
    [parts |-> <<<<"r","e","d","b","u","b","b","l","e">>>>, anchored |-> TRUE],
    [parts |-> <<<<"t","e","e","p","u","b","l","i","c">>>>, anchored |-> TRUE],
    [parts |-> <<<<"t","e","e","s","p","r","i","n","g">>>>, anchored |-> TRUE],
    [parts |-> <<<<"a","l","i","e","x","p","r","e","s","s">>>>, anchored |-> TRUE],
    [parts |-> <<<<"w","i","s","h">>>>, anchored |-> TRUE],
    [parts |-> <<<<"s","h","e","i","n">>>>, anchored |-> TRUE],
    [parts |-> <<<<"t","e","m","u">>>>, anchored |-> TRUE],
    [parts |-> <<<<"u","b","e","r">>, <<"e","a","t","s">>>>, anchored |-> FALSE],
    [parts |-> <<<<"d","o","o","r">>, <<"d","a","s","h">>>>, anchored |-> FALSE],
    [parts |-> <<<<"i","n","s","t","a","c","a","r","t">>>>, anchored |-> TRUE],
    [parts |-> <<<<"g","r","u","b","h","u","b">>>>, anchored |-> TRUE],
    [parts |-> <<<<"s","k","i","p">>, <<"t","h","e">>, <<"d","i","s","h","e","s">>>>, anchored |-> FALSE],
    [parts |-> <<<<"w","a","l","m","a","r","t",".","c","o","m">>>>, anchored |-> TRUE],
    [parts |-> <<<<"t","a","r","g","e","t",".","c","o","m">>>>, anchored |-> TRUE] >>


MatchesOnlineOnly(s) ==
    \E k \in DOMAIN ONLINE_ONLY_PATTERNS :
        TestPattern(s, ONLINE_ONLY_PATTERNS[k].parts, ONLINE_ONLY_PATTERNS[k].anchored)

\* the blocklist test on the raw label alone
isOnlineOnlyRawOnly(rawStore, normalizedStore) ==
    MatchesOnlineOnly(trim(toLowerCase(rawStore)))

isOnlineOnlyStore(rawStore, normalizedStore) ==
    \/ MatchesOnlineOnly(trim(toLowerCase(rawStore)))
    \/ MatchesOnlineOnly(trim(toLowerCase(normalizedStore)))

\* value of a string of decimal digits
RECURSIVE DigitsValue(_)
DigitsValue(ds) ==
    IF ds = <<>> THEN 0
    ELSE 10 * DigitsValue(SubSeq(ds, 1, Len(ds) - 1))
         + ((CHOOSE i \in DOMAIN DigitChars : DigitChars[i] = ds[Len(ds)]) - 1)

\* p.replace(/[^\d.]/g, "")
RECURSIVE KeepDigitsAndDots(_)
KeepDigitsAndDots(s) ==
    IF s = <<>> THEN <<>>
    ELSE IF IsDigit(Head(s)) \/ Head(s) = "."
         THEN <<Head(s)>> \o KeepDigitsAndDots(Tail(s))
         ELSE KeepDigitsAndDots(Tail(s))

\* Number(s) for a string of digits and dots, in cents (at most two decimals are
\* read); Null stands for NaN
NumberOf(s) ==
    LET dots == {i \in DOMAIN s : s[i] = "."}
    IN  IF s = <<>> THEN Num(0)
        ELSE IF dots = {} THEN Num(100 * DigitsValue(s))
        ELSE IF Cardinality(dots) > 1 \/ Len(s) = 1 THEN Null
        ELSE LET d    == CHOOSE i \in dots : TRUE
                 frac == Take(Drop(s, d), 2)
                 pad  == IF Len(frac) = 0 THEN 0
                         ELSE IF Len(frac) = 1 THEN 10 * DigitsValue(frac)
                         ELSE DigitsValue(frac)
             IN  Num(100 * DigitsValue(Take(s, d - 1)) + pad)

\* p is Num(v), Str(s) or Null; the result is Num(v) or Null
parsePrice(p) ==
    IF p.t = "num" THEN p
    ELSE IF p.t = "str" THEN NumberOf(KeepDigitsAndDots(p.v))
    ELSE Null

\* r.store.toLowerCase()
StoreKey(r) == toLowerCase(r.store)

\* dedupeCheapest without the price comparison of line 149
DedupeStepKeepFirst(by, r) ==
    IF \E j \in DOMAIN by : toLowerCase(by[j].store) = toLowerCase(r.store) THEN by
    ELSE Append(by, r)

\* the loop step with r.price <= by.get(k).price: the last of equally cheap
\* listings replaces the one kept so far
DedupeStepKeepLast(by, r) ==
    IF \E j \in DOMAIN by : toLowerCase(by[j].store) = toLowerCase(r.store)
    THEN LET j == CHOOSE j \in DOMAIN by : toLowerCase(by[j].store) = toLowerCase(r.store)
         IN  IF r.price <= by[j].price THEN [by EXCEPT ![j] = r] ELSE by
    ELSE Append(by, r)

\* one step of the loop of dedupeCheapest: by is the Map, as the sequence of its
\* values in insertion order
DedupeStep(by, r) ==
    IF \E j \in DOMAIN by : StoreKey(by[j]) = StoreKey(r)
    THEN LET j == CHOOSE j \in DOMAIN by : StoreKey(by[j]) = StoreKey(r)
         IN  IF r.price < by[j].price THEN [by EXCEPT ![j] = r] ELSE by
    ELSE Append(by, r)

RECURSIVE DedupeFrom(_, _)
DedupeFrom(by, rows) ==
    IF rows = <<>> THEN by ELSE DedupeFrom(DedupeStep(by, Head(rows)), Tail(rows))

dedupeCheapest(rows) == DedupeFrom(<<>>, rows)

(***************************************************************************)
(* Distance helper (part_005, lines 241-250) and the two sort comparators  *)
(***************************************************************************)
Infinity == [t |-> "inf"]

Abs(x) == IF x < 0 THEN -x ELSE x

\* haversineKm on the integer-degree grid around latitude 49, rounded to km
haversineKm(aLat, aLng, bLat, bLng) ==
    LET dLat == Abs(bLat - aLat)
        dLng == Abs(bLng - aLng)
    IN  CASE dLat = 0 /\ dLng = 0 -> 0
          [] dLat = 0 /\ dLng = 1 -> 73
          [] dLat = 1 /\ dLng = 0 -> 111
          [] OTHER -> 133

\* the comparator with its operands swapped: b.price - a.price
ComparePriceReversed(a, b) ==
    IF b.price < a.price THEN -1 ELSE IF b.price > a.price THEN 1 ELSE 0

\* sign of (a, b) => a.price - b.price
ComparePrice(a, b) ==
    IF a.price < b.price THEN -1 ELSE IF a.price > b.price THEN 1 ELSE 0

\* the distance comparator with its operands swapped
CompareDistanceReversed(a, b) ==
    IF a.distance_km = Infinity /\ b.distance_km = Infinity
    THEN (IF a.price < b.price THEN -1 ELSE IF a.price > b.price THEN 1 ELSE 0)
    ELSE IF a.distance_km = Infinity THEN -1
    ELSE IF b.distance_km = Infinity THEN 1
    ELSE IF a.distance_km.v < b.distance_km.v THEN 1
    ELSE IF a.distance_km.v > b.distance_km.v THEN -1
    ELSE 0

\* sign of the comparator of lines 371-376
CompareDistance(a, b) ==
    IF a.distance_km = Infinity /\ b.distance_km = Infinity THEN ComparePrice(a, b)
    ELSE IF a.distance_km = Infinity THEN 1
    ELSE IF b.distance_km = Infinity THEN -1
    ELSE IF a.distance_km.v < b.distance_km.v THEN -1
    ELSE IF a.distance_km.v > b.distance_km.v THEN 1
    ELSE 0

\* Array.prototype.sort is stable: r goes after every element that does not
\* compare greater than it
RECURSIVE InsertByPrice(_, _)
InsertByPrice(sorted, r) ==
    IF sorted = <<>> THEN <<r>>
    ELSE IF ComparePrice(Head(sorted), r) <= 0
         THEN <<Head(sorted)>> \o InsertByPrice(Tail(sorted), r)
         ELSE <<r>> \o sorted

RECURSIVE SortByPrice(_)
SortByPrice(rows) ==
    IF rows = <<>> THEN <<>>
    ELSE InsertByPrice(SortByPrice(SubSeq(rows, 1, Len(rows) - 1)), rows[Len(rows)])

RECURSIVE InsertByDistance(_, _)
InsertByDistance(sorted, r) ==
    IF sorted = <<>> THEN <<r>>
    ELSE IF CompareDistance(Head(sorted), r) <= 0
         THEN <<Head(sorted)>> \o InsertByDistance(Tail(sorted), r)
         ELSE <<r>> \o sorted

RECURSIVE SortByDistance(_)
SortByDistance(rows) ==
    IF rows = <<>> THEN <<>>
    ELSE InsertByDistance(SortByDistance(SubSeq(rows, 1, Len(rows) - 1)), rows[Len(rows)])

\* Array.prototype.slice(0, n)
Slice(rows, n) == Take(rows, n)

Min(a, b) == IF a < b THEN a ELSE b

(***************************************************************************)
(* State                                                                   *)
(***************************************************************************)
VARIABLES
    GOOGLE_PLACES_KEY,  \* whether the primary geocoder is configured (line 24)
    serpCache,          \* key -> shopping payload (line 100)
    geocodeCache,       \* key -> GeoHit (line 101)
    req,                \* request id -> the state of its handler invocation
    serpExpired,        \* keys whose shopping-cache entry expired or was evicted
    world               \* what the clients and the providers may do in this run

vars == <<GOOGLE_PLACES_KEY, serpCache, geocodeCache, req, serpExpired, world>>

\* the handler invocations that may run concurrently
Requests == {1, 2}

\* const limit = top ?? 5
DefaultTop == 5

StrSerpPrefix == <<"s","e","r","p",":">>

StrGeoPrefix == <<"g","e","o",":">>

StrColon == <<":">>

StrNotFound == <<" ","(","l","o","c","a","t","i","o","n"," ","n","o","t"," ","f","o","u","n","d",")">>

\* location: "…" of a row that was not geocoded yet
LocPending == <<"...">>

\* `serp:${query}:${city}`
SerpKey(query, city) == StrSerpPrefix \o query \o StrColon \o city

\* `geo:${store}:${city}`
GeoKey(store, city) == StrGeoPrefix \o store \o StrColon \o city

\* a cache whose get never finds anything
CacheHasNever(cache, key) == FALSE

\* LRUCache.get returns a value for the keys it holds; LRUCache.set inserts or
\* replaces one whole entry
CacheHas(cache, key) == key \in DOMAIN cache

CacheSet(cache, key, value) ==
    [k \in DOMAIN cache \cup {key} |-> IF k = key THEN value ELSE cache[k]]

CacheDelete(cache, key) == [k \in DOMAIN cache \ {key} |-> cache[k]]

\* `${store} (location not found)`
PlaceholderHit(store) == [address |-> store \o StrNotFound, lat |-> Null, lng |-> Null]

IdleRequest ==
    [pc |-> "idle", q |-> <<>>, city |-> <<>>, top |-> Null, lat |-> Null, lng |-> Null,
     sort |-> "price", closest |-> FALSE, serpa |-> Null, rough |-> <<>>, rows |-> <<>>,
     task |-> <<>>, i |-> 0, status |-> 0, body |-> <<>>,
     serpCalled |-> FALSE, serpFailed |-> FALSE, geoCalls |-> 0, netFail |-> FALSE,
     missed |-> {}, pause |-> 0, pauses |-> 0]

(***************************************************************************)
(* The clients and the providers: requests, payloads and geocoder answers  *)
(***************************************************************************)
\* the largest value of the top parameter a client sends
MaxTop == 2

\* the largest number of listings in a shopping payload
MaxListings == 3

DEFAULT_CITY == <<"V","a","n","c","o","u","v","e","r",","," ","B","r","i","t","i","s","h"," ","C","o","l","u","m","b","i","a",","," ","C","a","n","a","d","a">>

QueryCola == <<"c","o","c","a"," ","c","o","l","a"," ","3","5","5","m","l">>

LabelWalmartCa == <<"w","a","l","m","a","r","t",".","c","a">>

LabelWalmartCom == <<"w","a","l","m","a","r","t",".","c","o","m">>

LabelEbay == <<"e","B","a","y">>

LabelShopAmazon == <<"S","h","o","p"," ","A","m","a","z","o","n">>

LabelSafeway == <<"S","a","f","e","w","a","y">>

LabelSafewayUpper == <<"S","A","F","E","W","A","Y">>

HostCostco == <<"w","w","w",".","c","o","s","t","c","o",".","c","a">>

Price250 == <<"$","2",".","5","0">>

Price200 == <<"C","A","$","2">>

PriceTwoDots == <<"1",".","2",".","3">>

AddressNear == <<"1"," ","M","a","i","n"," ","S","t">>

AddressFar == <<"9"," ","F","a","r"," ","R","d">>

Listing(source, link, extracted, price) ==
    [source |-> source, product_link |-> link, extracted_price |-> extracted, price |-> price]

Payload(items) == [shopping_results |-> [t |-> "arr", v |-> items]]

\* the listings of the scenario of the specification: Walmart 2.50,
\* walmart.ca 2.75, eBay 1.00, Costco 2.25
ScenarioPayload ==
    Payload(<< Listing(Str(StrWalmart), Null, Null, Str(Price250)),
               Listing(Str(LabelWalmartCa), Null, Num(275), Null),
               Listing(Str(LabelEbay), Null, Num(100), Null),
               Listing(Str(StrCostco), Null, Num(225), Null) >>)

\* three stores, two of them at the same price, and an online-only listing
ThreeStorePayload ==
    Payload(<< Listing(Str(StrWalmart), Null, Num(225), Null),
               Listing(Str(LabelSafeway), Null, Num(225), Null),
               Listing(Str(LabelShopAmazon), Null, Num(100), Null),
               Listing(Null, [t |-> "url", host |-> HostCostco], Null, Str(Price200)),
               Listing(Str(LabelSafewayUpper), [t |-> "bad"], Null, Str(PriceTwoDots)),
               Listing(Str(StrCostco), Null, Num(225), Null) >>)

\* the listings a payload of PayloadWorlds is made of
ListingPool ==
    { Listing(Str(StrWalmart), Null, Null, Str(Price250)),
      Listing(Str(LabelWalmartCa), Null, Num(225), Null),
      Listing(Str(LabelWalmartCa), Null, Num(250), Null),
      Listing(Str(LabelWalmartCom), Null, Num(100), Null),
      Listing(Str(LabelShopAmazon), Null, Num(150), Null),
      Listing(Str(LabelEbay), Null, Num(100), Null),
      Listing(Str(LabelSafeway), Null, Num(-100), Null),
      Listing(Str(LabelSafewayUpper), Null, Null, Num(225)),
      Listing(Str(StrCostco), Null, Num(0), Str(Price250)) }

\* the sequences of at most n different listings of the pool
RECURSIVE ListingSeqs(_)
ListingSeqs(n) ==
    IF n = 0 THEN {<<>>}
    ELSE LET shorter == ListingSeqs(n - 1)
         IN  shorter \cup {Append(s, l) : s \in {x \in shorter : Len(x) = n - 1},
                                           l \in ListingPool}

DistinctListingSeqs(n) ==
    {s \in ListingSeqs(n) : \A i, j \in DOMAIN s : i # j => s[i] # s[j]}

\* a validated query: the output of InputSchema (lines 255-276)
Params(q, city, top, lat, lng, sort) ==
    [q |-> q, city |-> city, top |-> top, lat |-> lat, lng |-> lng, sort |-> sort]

\* the three ways the mode branch of line 330 is reached
ModeParams(top) ==
    { Params(QueryCola, DEFAULT_CITY, top, Null, Null, "price"),
      Params(QueryCola, DEFAULT_CITY, top, Num(49), Null, "closest"),
      Params(QueryCola, DEFAULT_CITY, top, Num(49), Num(-123), "closest") }

Tops == {Num(n) : n \in 1..MaxTop}

SerpOk(json) == [t |-> "ok", json |-> json]

SerpHttpError == [t |-> "http"]

SerpNetworkError == [t |-> "net"]

PlacesCandidate(address, lat, lng) ==
    [t |-> "cand", address |-> address, lat |-> lat, lng |-> lng]

NominatimFound(address, lat, lng) ==
    [t |-> "found", address |-> address, lat |-> lat, lng |-> lng]

AllPlacesOut ==
    { PlacesCandidate(AddressNear, Num(49), Num(-123)),
      PlacesCandidate(AddressFar, Num(50), Num(-123)),
      PlacesCandidate(AddressFar, Null, Null),
      [t |-> "none"], [t |-> "throw"] }

AllNominatimOut ==
    { NominatimFound(AddressNear, Num(49), Num(-122)),
      [t |-> "empty"], [t |-> "notok"], [t |-> "throw"] }

EmptyCache == [k \in {} |-> Null]

\* geocode caches left behind by earlier requests
WarmGeocodeCaches ==
    { EmptyCache,
      CacheSet(EmptyCache, GeoKey(StrCostco, DEFAULT_CITY),
               [address |-> AddressNear, lat |-> Num(49), lng |-> Num(-122)]),
      CacheSet(EmptyCache, GeoKey(StrWalmart, DEFAULT_CITY), PlaceholderHit(StrWalmart)) }

\* two requests for the same query and city get one of these
TwoStorePayload(cents) ==
    Payload(<< Listing(Str(StrCostco), Null, Num(cents), Null),
               Listing(Str(LabelSafeway), Null, Num(250), Null) >>)

(***************************************************************************)
(* InputSchema (part_005, lines 255-276)                                   *)
(***************************************************************************)
\* the value Number(s) gives for a string that is not a numeric literal
NaN == [t |-> "nan"]

StrInfinity == <<"I","n","f","i","n","i","t","y">>

StrPrice == <<"p","r","i","c","e">>

StrClosest == <<"c","l","o","s","e","s","t">>

\* Number(s) for a string s: the empty or blank string is 0; a decimal literal
\* with an optional sign is Num(v) when it has no fraction digit other than 0
\* and [t |-> "real"] otherwise; "Infinity" is Infinity; any other text is NaN
\* (exponents and radix prefixes are not read)
ToNumber(s) ==
    LET t     == trim(s)
        neg   == t # <<>> /\ Head(t) = "-"
        u     == IF t # <<>> /\ Head(t) \in {"-", "+"} THEN Tail(t) ELSE t
        dots  == {i \in DOMAIN u : u[i] = "."}
        d     == IF dots = {} THEN Len(u) + 1 ELSE CHOOSE i \in dots : TRUE
        whole == Take(u, d - 1)
        frac  == Drop(u, d)
        mag   == DigitsValue(whole)
    IN  IF t = <<>> THEN Num(0)
        ELSE IF u = StrInfinity THEN Infinity
        ELSE IF \/ Cardinality(dots) > 1
                \/ \E i \in DOMAIN u : ~(IsDigit(u[i]) \/ u[i] = ".")
                \/ (whole = <<>> /\ frac = <<>>)
             THEN NaN
        ELSE IF \A i \in DOMAIN frac : frac[i] = "0"
             THEN Num(IF neg THEN -mag ELSE mag)
        ELSE [t |-> "real", v |-> (IF neg THEN -mag ELSE mag), frac |-> frac]

\* Number.isFinite
IsFiniteNumber(n) == n.t \in {"num", "real"}

\* the query object handed to InputSchema.safeParse: every field is Null
\* (absent), Str(s), or [t |-> "arr"] for a parameter given more than once
RawQuery(q, city, top, lat, lng, sort) ==
    [q |-> q, city |-> city, top |-> top, lat |-> lat, lng |-> lng, sort |-> sort]

\* top: .transform((s) => (s ? Number(s) : undefined)); Null is undefined
TopOf(raw) == IF raw.top = Null \/ raw.top.v = <<>> THEN Null ELSE ToNumber(raw.top.v)

\* lat, lng: .transform((s) => (s != null ? Number(s) : undefined))
CoordOf(field) == IF field = Null THEN Null ELSE ToNumber(field.v)

\* the fields InputSchema finds an issue for
FieldErrors(raw) ==
    {f \in {"q", "city", "top", "lat", "lng", "sort"} :
        CASE f = "q" -> ~(raw.q.t = "str" /\ Len(raw.q.v) >= 1)
          [] f = "city" -> raw.city.t \notin {"null", "str"}
          [] f = "top" -> \/ raw.top.t \notin {"null", "str"}
                          \/ ~(\/ TopOf(raw) = Null
                               \/ (TopOf(raw).t = "num" /\ TopOf(raw).v > 0
                                                        /\ TopOf(raw).v <= 20))
          [] f = "lat" -> \/ raw.lat.t \notin {"null", "str"}
                          \/ ~(CoordOf(raw.lat) = Null \/ IsFiniteNumber(CoordOf(raw.lat)))
          [] f = "lng" -> \/ raw.lng.t \notin {"null", "str"}
                          \/ ~(CoordOf(raw.lng) = Null \/ IsFiniteNumber(CoordOf(raw.lng)))
          [] OTHER -> ~(raw.sort = Null \/ (raw.sort.t = "str"
                                            /\ raw.sort.v \in {StrPrice, StrClosest}))}

\* InputSchema.safeParse(raw): success, and parsed.data or the field errors
InputSchema(raw) ==
    IF FieldErrors(raw) # {}
    THEN [success |-> FALSE, fieldErrors |-> FieldErrors(raw)]
    ELSE [success |-> TRUE,
          data |-> Params(raw.q.v,
                          IF raw.city = Null THEN DEFAULT_CITY ELSE raw.city.v,
                          TopOf(raw), CoordOf(raw.lat), CoordOf(raw.lng),
                          IF raw.sort = Null \/ raw.sort.v = StrPrice
                          THEN "price" ELSE "closest")]

\* the query strings the clients of the "input" world send
RawTops ==
    {Null, [t |-> "arr"], Str(<<>>), Str(<<"1">>), Str(<<"2">>), Str(<<"2","0">>),
     Str(<<"0">>), Str(<<"2","1">>), Str(<<"1",".","5">>), Str(<<"-","1">>),
     Str(<<"a","b","c">>)}

RawLats == {Null, Str(<<>>), Str(<<"4","9">>), Str(<<"a","b","c">>), Str(StrInfinity)}

RawLngs == {Null, Str(<<"-","1","2","3">>), Str(<<"4","9",".","x">>)}

RawSorts == {Null, Str(StrPrice), Str(StrClosest), Str(<<"n","e","a","r","e","s","t">>)}

RawQueries ==
    {RawQuery(q, Null, top, lat, lng, sort) :
        q \in {Null, Str(<<>>), Str(QueryCola)}, top \in RawTops,
        lat \in RawLats, lng \in RawLngs, sort \in RawSorts}

LabelLondonDrugs == <<"L","o","n","d","o","n"," ","D","r","u","g","s"," ","L","t","d",".">>

LabelSaveOnFoods == <<"S","a","v","e","-","O","n","-","F","o","o","d","s">>

LabelSuperstore == <<"R","e","a","l"," ","C","a","n","a","d","i","a","n"," ","S","u","p","e","r","s","t","o","r","e">>

\* six stores with different prices and an online-only listing: more stores
\* than the default top
SixStorePayload ==
    Payload(<< Listing(Str(StrWalmart), Null, Num(250), Null),
               Listing(Str(LabelLondonDrugs), Null, Num(300), Null),
               Listing(Str(LabelEbay), Null, Num(100), Null),
               Listing(Str(LabelSafeway), Null, Num(225), Null),
               Listing(Str(LabelSuperstore), Null, Num(150), Null),
               Listing(Str(StrCostco), Null, Num(200), Null),
               Listing(Str(LabelSaveOnFoods), Null, Num(275), Null) >>)

\* the answer of the primary geocoder for a store under answer table n
TwinPlaces(n, store) ==
    CASE n = 1 /\ store = StrCostco -> PlacesCandidate(AddressFar, Num(50), Num(-123))
      [] n = 1 /\ store = StrWalmart -> PlacesCandidate(AddressNear, Num(49), Num(-123))
      [] n = 3 /\ store = StrCostco -> PlacesCandidate(AddressFar, Null, Null)
      [] n = 3 /\ store = StrWalmart -> [t |-> "throw"]
      [] OTHER -> [t |-> "none"]

\* the answer of the fallback geocoder for a store under answer table n
TwinNominatim(n, store) ==
    CASE n = 2 /\ store = StrCostco -> [t |-> "empty"]
      [] n = 2 /\ store = LabelSafeway -> [t |-> "notok"]
      [] n = 3 /\ store = LabelSafeway -> [t |-> "throw"]
      [] OTHER -> NominatimFound(AddressNear, Num(49), Num(-122))

\* the query strings of the two runs that are compared
TwinParams(top) ==
    { Params(QueryCola, DEFAULT_CITY, top, lat, lng, sort) :
        lat \in {Null, Num(49)}, lng \in {Null, Num(-123)}, sort \in {"price", "closest"} }

\* A world says what the clients and the providers may do in a run:
\*   "geo"        one request, the two fixed payloads, every geocoder answer
\*   "payload"    one request, the payload made of items, geocoders that find
\*                every store
\*   "concurrent" two requests for the same query and city
\*   "twin"       two runs of one request each from the same cache contents
\*                (geo0), with providers that answer by the table oracle;
\*                run is the number of the request of the current run
\*   "input"      one request with the query string raw, the six-store
\*                payload, providers that answer by table 1
\*   "limited"    two requests of one caller behind the rate limiter: hits is
\*                the caller's count in the current window, seen the requests
\*                that reached the limiter, admitted those it passed on
GeoWorld == [kind |-> "geo", items |-> <<>>]

PayloadWorlds == {[kind |-> "payload", items |-> items] : items \in DistinctListingSeqs(MaxListings)}

ConcurrentWorld == [kind |-> "concurrent", items |-> <<>>]

TwinWorlds ==
    {[kind |-> "twin", items |-> <<>>, oracle |-> n, run |-> 1, geo0 |-> c] :
        n \in 1..3, c \in WarmGeocodeCaches}

\* raw merchant labels with domain suffixes (single and stacked), hyphens,
\* corporate suffixes and brand tokens
LabelPool ==
    { <<"s","h","o","p",".","c","a",".","c","o","m">>,
      <<"i","g","a",".","n","e","t",".","o","r","g">>,
      <<"m","e","t","r","o",".","c","a","-","i","n","c">>,
      <<"L","o","b","l","a","w","s",".","C","A">>,
      <<"n","o","-","f","r","i","l","l","s",".","c","a">>,
      <<"B","e","s","t","-","B","u","y">>,
      <<"A","c","m","e"," ","I","n","c",".">>,
      <<"A","c","m","e"," ","I","n","c"," ","L","t","d">>,
      <<"F","o","o"," ","C","o","r","p","."," ","i","n","c">>,
      <<"G","i","a","n","t"," ","T","i","g","e","r"," ","l","t","d",".">>,
      <<"s","u","p","e","r","s","u","p","e","r","c","e","n","t","r","e","c","e","n","t","r","e">>,
      <<"W","a","l","m","a","r","t"," ","S","u","p","e","r","c","e","n","t","r","e">>,
      <<"L","o","n","d","o","n"," ","D","r","u","g","s"," ","L","t","d",".">>,
      <<"S","a","v","e","-","O","n","-","F","o","o","d","s">>,
      <<"R","e","a","l"," ","C","a","n","a","d","i","a","n"," ","S","u","p","e","r","s","t","o","r","e">>,
      <<"T","&","T"," ","S","u","p","e","r","m","a","r","k","e","t">>,
      <<"c","o","s","t","c","o",".","c","a",".","c","o","m">>,
      <<"s","h","o","p",".","a","m","a","z","o","n",".","c","a">> }

\* a payload with one listing under the label and a listing of another store
LabelWorlds ==
    {[kind |-> "payload",
      items |-> << Listing(Str(l), Null, Num(225), Null),
                   Listing(Str(LabelSafeway), Null, Num(250), Null) >>] : l \in LabelPool}

\* max: 60 of the rateLimit options
RateLimitMax == 60

\* the limiter answers a request itself when the caller's count, this request
\* included, is above max
RateLimitedLate(hits) == hits > RateLimitMax + 1

RateLimited(hits) == hits > RateLimitMax

\* the caller's count when the two requests of the model arrive: a fresh
\* window, or one with max - 2 .. max + 1 earlier requests
LimitedWorlds ==
    {[kind |-> "limited", items |-> <<>>, hits |-> n, seen |-> {}, admitted |-> {}] :
        n \in {0} \cup ((RateLimitMax - 2)..(RateLimitMax + 1))}

InputWorlds == {[kind |-> "input", items |-> <<>>, raw |-> raw] : raw \in RawQueries}

\* queries, cities and a merchant label that contain the separator of the
\* cache keys
QueryColaColonB == <<"c","o","l","a",":","B">>

QueryColaShort == <<"c","o","l","a">>

CityC == <<"c">>

CityBColonC == <<"B",":","c">>

LabelMetro == <<"M","e","t","r","o">>

LabelMetroColonB == <<"M","e","t","r","o",":","B">>

ColonPayload ==
    Payload(<< Listing(Str(LabelMetro), Null, Num(250), Null),
               Listing(Str(LabelMetroColonB), Null, Num(225), Null),
               Listing(Str(LabelSafeway), Null, Num(275), Null) >>)

\* two validated queries whose (q, city) pairs differ
ColonParams ==
    { Params(QueryColaShort, CityBColonC, Num(1), Null, Null, "price"),
      Params(QueryColaColonB, CityC, Num(1), Null, Null, "price") }

KeyWorld == [kind |-> "keys", items |-> <<>>]

\* the query strings that arrive unparsed
WorldRawQueries(w) == IF w.kind = "input" THEN {w.raw} ELSE {}

WorldReqs(w) ==
    IF w.kind \in {"concurrent", "keys"} THEN Requests
    ELSE IF w.kind = "twin" THEN {w.run}
    ELSE IF w.kind = "limited" THEN w.admitted
    ELSE {1}

WorldParams(w) ==
    CASE w.kind = "geo" -> UNION {ModeParams(top) : top \in Tops \cup {Null}}
      [] w.kind = "payload" -> UNION {ModeParams(top) : top \in Tops}
      [] w.kind = "twin" -> UNION {TwinParams(top) : top \in Tops}
      [] w.kind = "input" -> {InputSchema(raw).data :
                                 raw \in {x \in WorldRawQueries(w) : InputSchema(x).success}}
      [] w.kind = "keys" -> ColonParams
      [] OTHER -> {Params(QueryCola, DEFAULT_CITY, top, Null, Null, "price") : top \in Tops}

WorldSerpOut(w) ==
    CASE w.kind = "geo" -> {SerpOk(ScenarioPayload), SerpOk(ThreeStorePayload),
                            SerpHttpError, SerpNetworkError}
      [] w.kind = "payload" -> {SerpOk(Payload(w.items))}
      [] w.kind = "twin" -> {SerpOk(ThreeStorePayload)}
      [] w.kind = "input" -> {SerpOk(SixStorePayload)}
      [] w.kind = "limited" -> {SerpOk(TwoStorePayload(225))}
      [] w.kind = "keys" -> {SerpOk(ColonPayload)}
      [] OTHER -> {SerpOk(TwoStorePayload(225)), SerpOk(TwoStorePayload(200)), SerpHttpError}

WorldPlacesOut(w, store) ==
    CASE w.kind = "geo" -> AllPlacesOut
      [] w.kind = "payload" -> {PlacesCandidate(AddressNear, Num(49), Num(-123))}
      [] w.kind = "twin" -> {TwinPlaces(w.oracle, store)}
      [] w.kind = "input" -> {TwinPlaces(1, store)}
      [] w.kind = "limited" -> {TwinPlaces(1, store)}
      [] OTHER -> {PlacesCandidate(AddressNear, Num(49), Num(-123)), [t |-> "none"]}

WorldNominatimOut(w, store) ==
    CASE w.kind = "geo" -> AllNominatimOut
      [] w.kind = "payload" -> {NominatimFound(AddressNear, Num(49), Num(-122))}
      [] w.kind = "twin" -> {TwinNominatim(w.oracle, store)}
      [] w.kind = "input" -> {TwinNominatim(1, store)}
      [] w.kind = "limited" -> {TwinNominatim(1, store)}
      [] OTHER -> {NominatimFound(AddressNear, Num(49), Num(-122)), [t |-> "empty"]}

(***************************************************************************)
(* The handler of GET /v1/prices/search (part_005, lines 281-424)          *)
(***************************************************************************)
\* r.source || domainFromUrl(r.product_link) || "Unknown"
RawStoreOf(item) ==
    IF item.source.t = "str" /\ item.source.v # <<>> THEN item.source.v
    ELSE IF domainFromUrl(item.product_link).t = "str"
            /\ domainFromUrl(item.product_link).v # <<>>
         THEN domainFromUrl(item.product_link).v
         ELSE StrUnknown

\* r.extracted_price ?? parsePrice(r.price)
PriceOf(item) ==
    IF item.extracted_price # Null THEN item.extracted_price ELSE parsePrice(item.price)

\* if (!price) continue
PriceIsFalsy(price) == price = Null \/ price.v = 0

\* the loop of lines 303-317 from item number n on; src is the number of the
\* listing a row was built from
RECURSIVE RoughFrom(_, _)
RoughFrom(items, n) ==
    IF n > Len(items) THEN <<>>
    ELSE LET price    == PriceOf(items[n])
             rawStore == RawStoreOf(items[n])
             store    == normalizeStoreName(rawStore)
         IN  IF PriceIsFalsy(price) THEN RoughFrom(items, n + 1)
             ELSE IF isOnlineOnlyStore(rawStore, store) THEN RoughFrom(items, n + 1)
             ELSE <<[store |-> store, price |-> price.v, location |-> LocPending,
                     lat |-> Null, lng |-> Null, distance_km |-> Null, src |-> n]>>
                  \o RoughFrom(items, n + 1)

\* Array.isArray(serpa?.shopping_results) ? serpa.shopping_results : []
ItemsOf(serpa) == IF serpa.shopping_results.t = "arr" THEN serpa.shopping_results.v ELSE <<>>

Limit(rec) == IF rec.top = Null THEN DefaultTop ELSE rec.top.v

\* sort === "closest" && lat != null && lng != null
ClosestMode(rec) == rec.sort = "closest" /\ rec.lat # Null /\ rec.lng # Null

\* the window cut from the deduplicated rows as they come, without the sort
WindowUnsorted(rec, rows) ==
    IF ClosestMode(rec)
    THEN Slice(rows, Min(Limit(rec) * 3, Len(rows)))
    ELSE Slice(rows, Limit(rec) * 2)

\* the window chosen by the sort parameter alone, whatever the coordinates
WindowBySortOnly(rec, rows) ==
    IF rec.sort = "closest"
    THEN Slice(SortByPrice(rows), Min(Limit(rec) * 3, Len(rows)))
    ELSE Slice(SortByPrice(rows), Limit(rec) * 2)

\* the window with the factors of the two modes exchanged
WindowFactorsSwapped(rec, rows) ==
    IF ClosestMode(rec)
    THEN Slice(SortByPrice(rows), Min(Limit(rec) * 2, Len(rows)))
    ELSE Slice(SortByPrice(rows), Limit(rec) * 3)

\* the candidate window: lines 331-332 and line 383
Window(rec, rows) ==
    IF ClosestMode(rec)
    THEN Slice(SortByPrice(rows), Min(Limit(rec) * 3, Len(rows)))
    ELSE Slice(SortByPrice(rows), Limit(rec) * 2)

\* the assignments after `const g = await geocodeStore(r.store, city)`
WithGeo(rec, row, g) ==
    LET located == [row EXCEPT !.location = g.address, !.lat = g.lat, !.lng = g.lng]
    IN  IF ~rec.closest THEN located
        ELSE IF g.lat # Null /\ g.lng # Null
             THEN [located EXCEPT !.distance_km =
                      Num(haversineKm(rec.lat.v, rec.lng.v, g.lat.v, g.lng.v))]
             ELSE [located EXCEPT !.distance_km = Infinity]

\* the final sort with the window size as the cut: slice(0, limit * 2)
RankedDoubleCut(rec) ==
    IF rec.closest THEN Slice(SortByDistance(rec.rows), Limit(rec) * 2)
    ELSE Slice(SortByPrice(rec.rows), Limit(rec) * 2)

\* the final sort and truncation: lines 371-376 and line 411
Ranked(rec) ==
    IF rec.closest THEN Slice(SortByDistance(rec.rows), Limit(rec))
    ELSE Slice(SortByPrice(rec.rows), Limit(rec))

\* return res.json(rows)
Respond200(rec) == [rec EXCEPT !.pc = "done", !.status = 200, !.body = Ranked(rec)]

\* the catch of lines 418-423
Respond500(rec) == [rec EXCEPT !.pc = "done", !.status = 500]

AllDone(task) == \A i \in DOMAIN task : task[i] = "done"

\* geocodeStore up to its first await, for every row at once: the rows.map of
\* the Promise.all branches (lines 339 and 390) with the primary configured
LaunchAll(rec, cache) ==
    LET hit(i)   == CacheHas(cache, GeoKey(rec.rows[i].store, rec.city))
        launched == [rec EXCEPT
            !.rows = [i \in DOMAIN rec.rows |->
                        IF hit(i)
                        THEN WithGeo(rec, rec.rows[i], cache[GeoKey(rec.rows[i].store, rec.city)])
                        ELSE rec.rows[i]],
            !.task = [i \in DOMAIN rec.rows |-> IF hit(i) THEN "done" ELSE "places"],
            !.geoCalls = rec.geoCalls + Cardinality({i \in DOMAIN rec.rows : ~hit(i)}),
            !.pc = "geo"]
    IN  IF AllDone(launched.task) THEN Respond200(launched) ELSE launched

\* the delay given to setTimeout between two iterations, in milliseconds
PauseMs == 1100

\* the loop goes on to the next row without the timer and without looking
\* into the cache
SeqAfterGeoNoPause(rec, i, g) ==
    LET updated == [rec EXCEPT !.rows[i] = WithGeo(rec, rec.rows[i], g),
                               !.task[i] = "done", !.i = i]
    IN  IF i < Len(rec.rows)
        THEN [updated EXCEPT !.task[i + 1] = "nominatim", !.i = i + 1, !.pc = "geo",
                             !.geoCalls = rec.geoCalls + 1]
        ELSE Respond200(updated)

\* what follows a geocodeStore that returned g for row i in the sequential
\* loops (lines 352-366 and 397-406): the row is filled in and, unless it was
\* the last one, the handler waits for a timer of PauseMs
SeqAfterGeo(rec, i, g) ==
    LET updated == [rec EXCEPT !.rows[i] = WithGeo(rec, rec.rows[i], g),
                               !.task[i] = "done", !.i = i]
    IN  IF i < Len(rec.rows)
        THEN [updated EXCEPT !.pc = "sleep", !.pause = PauseMs, !.pauses = @ + 1]
        ELSE Respond200(updated)

\* iteration i of the sequential loops up to the first await of geocodeStore
SeqStep(rec, cache, i) ==
    IF CacheHas(cache, GeoKey(rec.rows[i].store, rec.city))
    THEN SeqAfterGeo(rec, i, cache[GeoKey(rec.rows[i].store, rec.city)])
    ELSE [rec EXCEPT !.task[i] = "nominatim", !.i = i, !.pc = "geo",
                     !.geoCalls = rec.geoCalls + 1]

\* lines 298-416 from the payload to the first await of a geocoding call
AfterSerp(rec, serpa, cache, placesKey) ==
    LET rough  == RoughFrom(ItemsOf(serpa), 1)
        window == Window(rec, dedupeCheapest(rough))
        ready  == [rec EXCEPT !.serpa = serpa, !.rough = rough, !.rows = window,
                              !.closest = ClosestMode(rec),
                              !.task = [i \in DOMAIN window |-> "none"]]
    IN  IF placesKey THEN LaunchAll(ready, cache)
        ELSE IF window = <<>> THEN Respond200(ready)
        ELSE SeqStep(ready, cache, 1)

\* return res.status(400).json({ error: parsed.error.flatten() })
Respond400(rec, fieldErrors) ==
    [rec EXCEPT !.pc = "done", !.status = 400, !.body = [fieldErrors |-> fieldErrors]]

\* a request arrives whose query InputSchema does not accept (lines 283-293)
BadRequest(r) ==
    /\ r \in WorldReqs(world)
    /\ req[r].pc = "idle"
    /\ \E raw \in WorldRawQueries(world) :
         /\ ~InputSchema(raw).success
         /\ req' = [req EXCEPT ![r] = Respond400(req[r], InputSchema(raw).fieldErrors)]
    /\ UNCHANGED <<GOOGLE_PLACES_KEY, serpCache, geocodeCache, serpExpired, world>>

\* the limiter's answer: status 429, the handler is not called
Respond429(rec) == [rec EXCEPT !.pc = "done", !.status = 429]

\* a request reaches the rateLimit middleware of lines 37-44, which is mounted
\* before the routes: it counts the request and either answers 429 itself or
\* passes the request on to the handler
Arrive(r) ==
    /\ world.kind = "limited"
    /\ r \notin world.seen
    /\ LET hits == world.hits + 1
       IN  IF RateLimited(hits)
           THEN /\ world' = [world EXCEPT !.hits = hits, !.seen = @ \cup {r}]
                /\ req' = [req EXCEPT ![r] = Respond429(req[r])]
           ELSE /\ world' = [world EXCEPT !.hits = hits, !.seen = @ \cup {r},
                                          !.admitted = @ \cup {r}]
                /\ req' = req
    /\ UNCHANGED <<GOOGLE_PLACES_KEY, serpCache, geocodeCache, serpExpired>>

\* windowMs: 60 * 1000 has passed since the caller's first counted request:
\* the count starts again
WindowReset ==
    /\ world.kind = "limited"
    /\ world.hits > 0
    /\ world' = [world EXCEPT !.hits = 0]
    /\ UNCHANGED <<GOOGLE_PLACES_KEY, serpCache, geocodeCache, req, serpExpired>>

\* the payload is stored before res.ok is looked at
SerpCacheAfterAlways(cache, key, o) ==
    CacheSet(cache, key, IF o.t = "ok" THEN o.json ELSE [shopping_results |-> Null])

\* the shopping cache after the provider call for key ended with o: line 182
\* is reached only when res.ok held and the body was read
SerpCacheAfter(cache, key, o) ==
    IF o.t = "ok" THEN CacheSet(cache, key, o.json) ELSE cache

\* a request arrives: InputSchema accepted it; fetchSerpShopping answers from
\* the cache or issues the provider call (lines 157-174)
Start(r) ==
    /\ r \in WorldReqs(world)
    /\ req[r].pc = "idle"
    /\ \E p \in WorldParams(world) :
         LET rec == [req[r] EXCEPT !.q = p.q, !.city = p.city, !.top = p.top,
                                   !.lat = p.lat, !.lng = p.lng, !.sort = p.sort]
             key == SerpKey(p.q, p.city)
         IN  IF CacheHas(serpCache, key)
             THEN req' = [req EXCEPT ![r] =
                            AfterSerp(rec, serpCache[key], geocodeCache, GOOGLE_PLACES_KEY)]
             ELSE req' = [req EXCEPT ![r] = [rec EXCEPT !.pc = "serp", !.serpCalled = TRUE]]
    /\ UNCHANGED <<GOOGLE_PLACES_KEY, serpCache, geocodeCache, serpExpired, world>>

\* the shopping provider call of line 174 completes (lines 174-184)
SerpReturn(r) ==
    /\ req[r].pc = "serp"
    /\ \E o \in WorldSerpOut(world) :
         /\ serpCache' = SerpCacheAfter(serpCache, SerpKey(req[r].q, req[r].city), o)
         /\ req' = [req EXCEPT ![r] =
                       IF o.t = "ok"
                       THEN AfterSerp(req[r], o.json, geocodeCache, GOOGLE_PLACES_KEY)
                       ELSE Respond500([req[r] EXCEPT !.serpFailed = TRUE])]
    /\ UNCHANGED <<GOOGLE_PLACES_KEY, geocodeCache, serpExpired, world>>

\* the rows collected in the order in which their lookups complete: the row
\* of a completed lookup is moved behind the others
AfterGeoInCompletionOrder(rec, i, g, placesKey) ==
    IF placesKey
    THEN LET others  == [k \in 1..(Len(rec.rows) - 1) |-> IF k < i THEN k ELSE k + 1]
             updated == [rec EXCEPT
                 !.rows = [k \in DOMAIN rec.rows |->
                             IF k = Len(rec.rows) THEN WithGeo(rec, rec.rows[i], g)
                             ELSE rec.rows[others[k]]],
                 !.task = [k \in DOMAIN rec.task |->
                             IF k = Len(rec.task) THEN "done" ELSE rec.task[others[k]]]]
         IN  IF AllDone(updated.task) /\ updated.status = 0
             THEN Respond200(updated) ELSE updated
    ELSE SeqAfterGeo(rec, i, g)

\* what follows a geocodeStore that returned g for row i of request r
AfterGeo(rec, i, g, placesKey) ==
    IF placesKey
    THEN LET updated == [rec EXCEPT !.rows[i] = WithGeo(rec, rec.rows[i], g),
                                    !.task[i] = "done"]
         IN  IF AllDone(updated.task) /\ updated.status = 0
             THEN Respond200(updated) ELSE updated
    ELSE SeqAfterGeo(rec, i, g)

\* the primary geocoder call of line 199 completes (lines 199-216): a usable
\* candidate is cached and returned, anything else falls through to the
\* fallback call of line 221
PlacesReturn(r) ==
    /\ \E i \in DOMAIN req[r].task :
       \E o \in WorldPlacesOut(world, req[r].rows[i].store) :
         /\ req[r].task[i] = "places"
         /\ IF o.t = "cand"
            THEN LET geo == [address |-> o.address, lat |-> o.lat, lng |-> o.lng]
                     key == GeoKey(req[r].rows[i].store, req[r].city)
                 IN  /\ geocodeCache' = CacheSet(geocodeCache, key, geo)
                     /\ req' = [req EXCEPT ![r] =
                                   AfterGeo(req[r], i, geo, GOOGLE_PLACES_KEY)]
            ELSE /\ geocodeCache' = geocodeCache
                 /\ req' = [req EXCEPT ![r] =
                               [req[r] EXCEPT !.task[i] = "nominatim",
                                              !.geoCalls = req[r].geoCalls + 1,
                                              !.netFail = req[r].netFail \/ o.t = "throw"]]
    /\ UNCHANGED <<GOOGLE_PLACES_KEY, serpCache, serpExpired, world>>

\* an exception leaves geocodeStore and nothing catches it
GeoThrowsUnanswered(rec, i) == [rec EXCEPT !.task[i] = "threw", !.netFail = TRUE]

\* an exception leaves geocodeStore: Promise.all rejects, or the loop is left,
\* and the catch of line 418 answers unless the request was answered already
GeoThrows(rec, i) ==
    LET failed == [rec EXCEPT !.task[i] = "threw", !.netFail = TRUE]
    IN  IF failed.status = 0 THEN Respond500(failed) ELSE failed

\* the fallback geocoder call of line 221 completes (lines 221-235)
NominatimReturn(r) ==
    /\ \E i \in DOMAIN req[r].task :
       \E o \in WorldNominatimOut(world, req[r].rows[i].store) :
         /\ req[r].task[i] = "nominatim"
         /\ IF o.t = "throw"
            THEN /\ geocodeCache' = geocodeCache
                 /\ req' = [req EXCEPT ![r] = GeoThrows(req[r], i)]
            ELSE LET store == req[r].rows[i].store
                     geo   == IF o.t = "found"
                              THEN [address |-> o.address, lat |-> o.lat, lng |-> o.lng]
                              ELSE PlaceholderHit(store)
                     rec   == IF o.t = "found" THEN req[r]
                              ELSE [req[r] EXCEPT !.missed = req[r].missed \cup {store}]
                 IN  /\ geocodeCache' = CacheSet(geocodeCache, GeoKey(store, req[r].city), geo)
                     /\ req' = [req EXCEPT ![r] =
                                   AfterGeo(rec, i, geo, GOOGLE_PLACES_KEY)]
    /\ UNCHANGED <<GOOGLE_PLACES_KEY, serpCache, serpExpired, world>>

\* the timer of lines 364 and 404 fires, req[r].pause milliseconds after it
\* was set: the next iteration begins
Wake(r) ==
    /\ req[r].pc = "sleep"
    /\ req' = [req EXCEPT ![r] = SeqStep(req[r], geocodeCache, req[r].i + 1)]
    /\ UNCHANGED <<GOOGLE_PLACES_KEY, serpCache, geocodeCache, serpExpired, world>>

\* an entry of the shopping cache passes its ttl or is evicted (line 100)
SerpExpire ==
    /\ \E k \in DOMAIN serpCache :
         /\ serpCache' = CacheDelete(serpCache, k)
         /\ serpExpired' = serpExpired \cup {k}
    /\ UNCHANGED <<GOOGLE_PLACES_KEY, geocodeCache, req, world>>

\* the handler of request r has answered and none of its calls is outstanding
Quiescent(r) ==
    /\ req[r].pc = "done"
    /\ \A i \in DOMAIN req[r].task : req[r].task[i] \notin {"places", "nominatim"}

\* the second run of a comparison: the process is given the cache contents the
\* first request found (serpCache and geocodeCache of lines 100-101), and the
\* second request may arrive
Replay ==
    /\ world.kind = "twin"
    /\ world.run = 1
    /\ Quiescent(1)
    /\ serpCache' = EmptyCache
    /\ geocodeCache' = world.geo0
    /\ world' = [world EXCEPT !.run = 2]
    /\ UNCHANGED <<GOOGLE_PLACES_KEY, req, serpExpired>>

(***************************************************************************)
(* Objects and references: which statements of the handler create an       *)
(* object, which ones write into one, and what the caches refer to          *)
(* (part_005, lines 157-236 and 296-416).  The heap is a sequence of        *)
(* objects; a reference is an index into it, 0 is no reference.             *)
(***************************************************************************)
\* obj[f], undefined when obj has no property f
Get(obj, f) == IF f \in DOMAIN obj THEN obj[f] ELSE Null

\* obj.f = v
SetField(obj, f, v) == [x \in DOMAIN obj \cup {f} |-> IF x = f THEN v ELSE obj[x]]

EmptyObject == [x \in {} |-> Null]

\* a new object: an object literal, an array literal or a parsed JSON value
Alloc(h, obj) == Append(h, obj)

\* the listings the shopping provider answers with in this world
HeapListings ==
    << [source |-> LabelSafeway, extracted_price |-> 250],
       [source |-> StrCostco, extracted_price |-> 225] >>

\* await res.json() of line 180: a new array of new listing objects; the
\* array is the last object of the heap returned
ParsedPayload(h) ==
    Alloc(h \o HeapListings, [elems |-> [k \in DOMAIN HeapListings |-> Len(h) + k]])

\* the row pushed to rough is the listing object itself, with store, price
\* and location written into it
RowObjectIsListing(listing, fresh) == listing

\* the row pushed to rough at line 316 is a new object literal
RowObject(listing, fresh) == fresh

\* lines 298-331 and 383 on the payload array arr: a row object per listing,
\* and new arrays for rough, for the deduplicated rows and for the slice; the
\* window array is the last object of the heap returned
BuildRows(h, arr) ==
    LET items  == h[arr].elems
        n      == Len(items)
        h1     == h \o [k \in 1..n |-> EmptyObject]
        ids    == [k \in 1..n |-> RowObject(items[k], Len(h) + k)]
        rowOf(k, obj) ==
            SetField(SetField(SetField(obj,
                "store", normalizeStoreName(Get(h[items[k]], "source"))),
                "price", Get(h[items[k]], "extracted_price")),
                "location", LocPending)
        h2     == [id \in DOMAIN h1 |->
                     IF \E k \in 1..n : ids[k] = id
                     THEN rowOf(CHOOSE k \in 1..n : ids[k] = id, h1[id])
                     ELSE h1[id]]
        sorted == SortByPrice([k \in 1..n |-> [id |-> ids[k], price |-> Get(h2[ids[k]], "price")]])
    IN  Alloc(h2, [elems |-> [k \in 1..n |-> sorted[k].id]])

\* r.location = g.address; r.lat = g.lat; r.lng = g.lng
WriteGeo(h, row, g) ==
    [h EXCEPT ![row] = SetField(SetField(SetField(h[row],
        "location", Get(g, "address")), "lat", Get(g, "lat")), "lng", Get(g, "lng"))]

HeapWorld ==
    [kind |-> "heap", items |-> <<>>, heap |-> <<>>, serpRef |-> 0, geoRef |-> EmptyCache,
     rq |-> [r \in Requests |-> [pc |-> "idle", rows |-> 0, i |-> 0, body |-> 0]]]

\* the geocoder's answers in this world: a place, or nothing
HeapGeoHits(store) ==
    { [address |-> AddressNear, lat |-> Num(49), lng |-> Num(-123)],
      [address |-> store \o StrNotFound] }

HeapFrame == UNCHANGED <<GOOGLE_PLACES_KEY, serpCache, geocodeCache, req, serpExpired>>

\* the handler up to the first await: fetchSerpShopping answers from the
\* cache and the rows are built, or the provider is called
HeapStart(r) ==
    /\ world.kind = "heap"
    /\ world.rq[r].pc = "idle"
    /\ IF world.serpRef # 0
       THEN LET h == BuildRows(world.heap, world.serpRef)
            IN  world' = [world EXCEPT !.heap = h,
                                       !.rq[r] = [@ EXCEPT !.pc = "geo", !.rows = Len(h)]]
       ELSE world' = [world EXCEPT !.rq[r].pc = "serp"]
    /\ HeapFrame

\* the provider call returns: the payload is parsed, stored in the cache
\* (line 182) and the rows are built
HeapSerpReturn(r) ==
    /\ world.kind = "heap"
    /\ world.rq[r].pc = "serp"
    /\ LET p == ParsedPayload(world.heap)
           h == BuildRows(p, Len(p))
       IN  world' = [world EXCEPT !.heap = h, !.serpRef = Len(p),
                                  !.rq[r] = [@ EXCEPT !.pc = "geo", !.rows = Len(h)]]
    /\ HeapFrame

\* geocodeStore for the next row up to its first await: the cached hit is
\* returned and copied into the row, or a geocoder is called
HeapLookup(r) ==
    /\ world.kind = "heap"
    /\ world.rq[r].pc = "geo"
    /\ world.rq[r].i < Len(world.heap[world.rq[r].rows].elems)
    /\ LET row   == world.heap[world.rq[r].rows].elems[world.rq[r].i + 1]
           store == Get(world.heap[row], "store")
       IN  IF store \in DOMAIN world.geoRef
           THEN world' = [world EXCEPT
                    !.heap = WriteGeo(world.heap, row, world.heap[world.geoRef[store]]),
                    !.rq[r].i = @ + 1]
           ELSE world' = [world EXCEPT !.rq[r].pc = "call"]
    /\ HeapFrame

\* the geocoder call returns: a new GeoHit object is stored in the cache
\* (lines 204-209, 225-226, 231-234), returned and copied into the row
HeapGeoReturn(r) ==
    /\ world.kind = "heap"
    /\ world.rq[r].pc = "call"
    /\ LET row   == world.heap[world.rq[r].rows].elems[world.rq[r].i + 1]
           store == Get(world.heap[row], "store")
       IN  \E geo \in HeapGeoHits(store) :
             LET h == Alloc(world.heap, geo)
             IN  world' = [world EXCEPT
                     !.heap = WriteGeo(h, row, geo),
                     !.geoRef = CacheSet(world.geoRef, store, Len(h)),
                     !.rq[r] = [@ EXCEPT !.pc = "geo", !.i = @ + 1]]
    /\ HeapFrame

\* the final sort and slice (lines 371-376, 411) make a new array, which is
\* serialized by res.json
HeapRespond(r) ==
    /\ world.kind = "heap"
    /\ world.rq[r].pc = "geo"
    /\ world.rq[r].i = Len(world.heap[world.rq[r].rows].elems)
    /\ LET h == Alloc(world.heap, [elems |-> Slice(world.heap[world.rq[r].rows].elems, 1)])
       IN  world' = [world EXCEPT !.heap = h,
                                  !.rq[r] = [@ EXCEPT !.pc = "done", !.body = Len(h)]]
    /\ HeapFrame

NextHeap ==
    \/ \E r \in Requests : HeapStart(r)
    \/ \E r \in Requests : HeapSerpReturn(r)
    \/ \E r \in Requests : HeapLookup(r)
    \/ \E r \in Requests : HeapGeoReturn(r)
    \/ \E r \in Requests : HeapRespond(r)

(***************************************************************************)
(* Initial states and specifications                                      *)
(***************************************************************************)
InitWith(w, placesKeys, geoCaches) ==
    /\ world = w
    /\ GOOGLE_PLACES_KEY \in placesKeys
    /\ serpCache = EmptyCache
    /\ geocodeCache \in geoCaches
    /\ req = [r \in Requests |-> IdleRequest]
    /\ serpExpired = {}

Init == InitWith(GeoWorld, BOOLEAN, WarmGeocodeCaches)

InitPayload == \E w \in PayloadWorlds : InitWith(w, BOOLEAN, {EmptyCache})

InitConcurrent == InitWith(ConcurrentWorld, BOOLEAN, {EmptyCache})

InitTwin == \E w \in TwinWorlds : InitWith(w, BOOLEAN, {w.geo0})

Next ==
    \/ \E r \in Requests : Start(r)
    \/ \E r \in Requests : SerpReturn(r)
    \/ \E r \in Requests : PlacesReturn(r)
    \/ \E r \in Requests : NominatimReturn(r)
    \/ \E r \in Requests : Wake(r)

NextExpiring == Next \/ SerpExpire

Spec == Init /\ [][Next]_vars

SpecPayload == InitPayload /\ [][Next]_vars

SpecConcurrent == InitConcurrent /\ [][NextExpiring]_vars

NextTwin == Next \/ Replay

InitLimited == \E w \in LimitedWorlds : InitWith(w, BOOLEAN, {EmptyCache})

NextLimited == Next \/ (\E r \in Requests : Arrive(r)) \/ WindowReset

SpecLimited == InitLimited /\ [][NextLimited]_vars

InitKeys == InitWith(KeyWorld, BOOLEAN, {EmptyCache})

SpecKeys == InitKeys /\ [][Next]_vars

InitLabels == \E w \in LabelWorlds : InitWith(w, BOOLEAN, {EmptyCache})

SpecLabels == InitLabels /\ [][Next]_vars

InitInput == \E w \in InputWorlds : InitWith(w, BOOLEAN, {EmptyCache})

NextInput == Next \/ (\E r \in Requests : BadRequest(r))

SpecInput == InitInput /\ [][NextInput]_vars

\* a call that was issued returns or fails, or a timer fires
Returns ==
    \E r \in Requests :
        SerpReturn(r) \/ PlacesReturn(r) \/ NominatimReturn(r) \/ Wake(r)

\* as long as a call or a timer is outstanding, one of them completes
CallsReturn == WF_vars(Returns)

\* some of the malformed query strings of RawQueries
MalformedQueries ==
    {RawQuery(q, Null, top, lat, Null, Str(StrClosest)) :
        q \in {Str(<<>>), Str(QueryCola)},
        top \in {Str(<<"0">>), Str(<<"2","1">>)},
        lat \in {Null, Str(<<"a","b","c">>)}}

\* the requests the handler takes up: validated ones, as in Init, and
\* malformed ones
InitHandled ==
    \/ Init
    \/ \E raw \in MalformedQueries :
           InitWith([kind |-> "input", items |-> <<>>, raw |-> raw], BOOLEAN, {EmptyCache})

SpecHandled == InitHandled /\ [][NextInput]_vars /\ CallsReturn

SpecTwin == InitTwin /\ [][NextTwin]_vars

InitHeap == InitWith(HeapWorld, {FALSE}, {EmptyCache})

SpecHeap == InitHeap /\ [][NextHeap]_vars

(***************************************************************************)
(* Properties                                                              *)
(***************************************************************************)
\* the 200 responses
Answered200(r) == req[r].status = 200

\* the raw merchant label of the listing row was built from
RawLabelOf(r, row) == RawStoreOf(ItemsOf(req[r].serpa)[row.src])

HasCoords(row) == row.lat # Null /\ row.lng # Null

\* the mode branch, read from the request parameters
PriceModeRequest(r) == req[r].sort = "price" \/ req[r].lat = Null \/ req[r].lng = Null

\* C1: in every 200 response no two rows have the same lowercase store name,
\* and the price of each row is at most the price of every listing that
\* survived the price and online-only filters under the same lowercase name.
C1_DedupeCheapest ==
    \A r \in Requests :
        Answered200(r) =>
            /\ \A i, j \in DOMAIN req[r].body :
                   i # j => toLowerCase(req[r].body[i].store) # toLowerCase(req[r].body[j].store)
            /\ \A i \in DOMAIN req[r].body, k \in DOMAIN req[r].rough :
                   toLowerCase(req[r].rough[k].store) = toLowerCase(req[r].body[i].store)
                       => req[r].body[i].price <= req[r].rough[k].price

\* a response with a row whose store had a dearer listing first and the
\* cheaper one later
C1_Witness ==
    \E r \in Requests :
        /\ Answered200(r)
        /\ \E i \in DOMAIN req[r].body, k1, k2 \in DOMAIN req[r].rough :
               /\ k1 < k2
               /\ toLowerCase(req[r].rough[k1].store) = toLowerCase(req[r].body[i].store)
               /\ toLowerCase(req[r].rough[k2].store) = toLowerCase(req[r].body[i].store)
               /\ req[r].rough[k2].price < req[r].rough[k1].price

\* C2: no row of a 200 response comes from a listing whose raw label or whose
\* normalized store name matches an online-only pattern; none comes from a
\* listing labelled "eBay" and none has the store name "Amazon".
C2_OnlineOnlyExcluded ==
    \A r \in Requests :
        Answered200(r) =>
            \A i \in DOMAIN req[r].body :
                /\ ~MatchesOnlineOnly(trim(toLowerCase(RawLabelOf(r, req[r].body[i]))))
                /\ ~MatchesOnlineOnly(trim(toLowerCase(req[r].body[i].store)))
                /\ RawLabelOf(r, req[r].body[i]) # LabelEbay
                /\ req[r].body[i].store # StrAmazon

\* a non-empty response to a payload with a priced "eBay" listing and a priced
\* listing that normalizes to "Amazon"
C2_Witness ==
    \E r \in Requests :
        /\ Answered200(r)
        /\ req[r].body # <<>>
        /\ \E k1, k2 \in DOMAIN ItemsOf(req[r].serpa) :
               /\ RawStoreOf(ItemsOf(req[r].serpa)[k1]) = LabelEbay
               /\ ~PriceIsFalsy(PriceOf(ItemsOf(req[r].serpa)[k1]))
               /\ RawStoreOf(ItemsOf(req[r].serpa)[k2]) = LabelShopAmazon
               /\ ~PriceIsFalsy(PriceOf(ItemsOf(req[r].serpa)[k2]))

\* C3: a geocoding network call that fails never makes the request answer 500.
C3_GeocodeFailureAbsorbed ==
    \A r \in Requests : req[r].netFail => req[r].status # 500

\* C4: within one request at most one fallback geocoder call is in flight.
C4_OneFallbackCallInFlight ==
    \A r \in Requests :
        Cardinality({i \in DOMAIN req[r].task : req[r].task[i] = "nominatim"}) <= 1

\* C5: two requests with the same (query, city) whose shopping-cache entry did
\* not expire in between receive the same payload, and the provider was
\* called for only one of them.
C5_OneProviderCallPerKey ==
    \A r1, r2 \in Requests :
        (/\ r1 # r2
         /\ req[r1].serpa # Null
         /\ req[r2].serpa # Null
         /\ SerpKey(req[r1].q, req[r1].city) = SerpKey(req[r2].q, req[r2].city)
         /\ SerpKey(req[r1].q, req[r1].city) \notin serpExpired)
            => /\ req[r1].serpa = req[r2].serpa
               /\ ~(req[r1].serpCalled /\ req[r2].serpCalled)

\* C6: every row of a 200 response has a price greater than 0.
C6_PositivePrices ==
    \A r \in Requests :
        Answered200(r) => \A i \in DOMAIN req[r].body : req[r].body[i].price > 0

\* C7: in price mode the rows of a 200 response are in non-decreasing order of
\* price.
C7_PriceModeSorted ==
    \A r \in Requests :
        (Answered200(r) /\ PriceModeRequest(r)) =>
            \A i, j \in DOMAIN req[r].body :
                i < j => req[r].body[i].price <= req[r].body[j].price

\* a price-mode response (closest asked without lng) with two rows whose
\* listings came in the opposite order
C7_Witness ==
    \E r \in Requests :
        /\ Answered200(r)
        /\ req[r].sort = "closest"
        /\ req[r].lng = Null
        /\ Len(req[r].body) >= 2
        /\ req[r].body[1].price < req[r].body[2].price
        /\ req[r].body[1].src > req[r].body[2].src

\* a.distance_km <= b.distance_km, with Infinity above every number
DistanceLeq(a, b) ==
    /\ a.distance_km # Null
    /\ b.distance_km # Null
    /\ \/ b.distance_km = Infinity
       \/ (a.distance_km # Infinity /\ a.distance_km.v <= b.distance_km.v)

Settled(r) ==
    /\ req[r].pc = "done"
    /\ \A i \in DOMAIN req[r].task : req[r].task[i] \in {"done", "threw"}

\* the number of rows ranked before row i of the window
RankedBefore(r, i) ==
    LET ranked == IF req[r].closest THEN SortByDistance(req[r].rows)
                  ELSE SortByPrice(req[r].rows)
    IN  (CHOOSE n \in DOMAIN ranked : ranked[n].store = req[r].rows[i].store) - 1

\* C9: a request in which both geocoders had no match for a store of the
\* window answers 200; the row keeps its store and price, has the "location
\* not found" placeholder and no coordinates, in closest mode the Infinity
\* distance, and is in the response when fewer than top rows rank before it.
C9_GeocodeMissDegradesRow ==
    \A r \in Requests :
        (Settled(r) /\ req[r].missed # {}) =>
            /\ req[r].status = 200
            /\ \A i \in DOMAIN req[r].rows :
                   req[r].rows[i].store \in req[r].missed =>
                       /\ req[r].rows[i].location = req[r].rows[i].store \o StrNotFound
                       /\ ~HasCoords(req[r].rows[i])
                       /\ req[r].closest => req[r].rows[i].distance_km = Infinity
                       /\ RankedBefore(r, i) < Limit(req[r])
                              => \E n \in DOMAIN req[r].body : req[r].body[n] = req[r].rows[i]

\* C10: a failed shopping provider call answers 500, issues no geocoding call
\* and leaves the shopping cache as it was; a request that then arrives and
\* finds no entry for its (query, city) issues a provider call.
C10_ProviderFailureNotCached ==
    [][ /\ \A r \in Requests :
              (req[r].pc = "serp" /\ req'[r].serpFailed) =>
                  /\ req'[r].pc = "done"
                  /\ req'[r].status = 500
                  /\ req'[r].geoCalls = 0
                  /\ req'[r].task = <<>>
                  /\ serpCache' = serpCache
        /\ \A r \in Requests : req[r].serpFailed => req'[r] = req[r]
        /\ \A r \in Requests :
              (/\ req[r].pc = "idle"
               /\ req'[r].pc # "idle"
               /\ \E f \in Requests : /\ req[f].serpFailed
                                      /\ req[f].q = req'[r].q
                                      /\ req[f].city = req'[r].city
               /\ ~CacheHas(serpCache, SerpKey(req'[r].q, req'[r].city)))
                  => req'[r].pc = "serp" /\ req'[r].serpCalled
      ]_vars

\* a request whose provider call failed, and a request for the same query and
\* city waiting for its own provider call while the cache has no entry
C10_Witness ==
    \E f, r \in Requests :
        /\ req[f].serpFailed
        /\ req[f].status = 500
        /\ req[r].pc = "serp"
        /\ req[r].q = req[f].q
        /\ req[r].city = req[f].city
        /\ ~CacheHas(serpCache, SerpKey(req[f].q, req[f].city))

\* the two runs of a comparison were asked the same thing except for sort:
\* request a with sort=price, request b with sort=closest and lat or lng absent
SameButSort(a, b) ==
    /\ req[a].q = req[b].q
    /\ req[a].city = req[b].city
    /\ req[a].top = req[b].top
    /\ req[a].lat = req[b].lat
    /\ req[a].lng = req[b].lng
    /\ req[a].sort = "price"
    /\ req[b].sort = "closest"
    /\ (req[b].lat = Null \/ req[b].lng = Null)

\* C11: a request with sort=closest and lat or lng absent gets the response
\* the same request with sort=price gets from the same cache contents and the
\* same provider answers: the same status, the same rows in the same order,
\* and no distance_km on any row.
C11_ClosestWithoutCoordsIsPrice ==
    \A a, b \in Requests :
        (Quiescent(a) /\ Quiescent(b) /\ SameButSort(a, b)) =>
            /\ req[a].status = req[b].status
            /\ req[a].body = req[b].body
            /\ \A i \in DOMAIN req[b].body : req[b].body[i].distance_km = Null

\* both runs answered 200 with two rows, the closest one sent lat without lng
C11_Witness ==
    \E a, b \in Requests :
        /\ Quiescent(a)
        /\ Quiescent(b)
        /\ SameButSort(a, b)
        /\ req[b].lat # Null
        /\ req[b].status = 200
        /\ Len(req[b].body) = 2

\* the text s denotes a finite number
DenotesFiniteNumber(s) == trim(s) # <<>> /\ IsFiniteNumber(ToNumber(s))

\* the text s denotes an integer in 1..20
DenotesTop(s) ==
    /\ trim(s) # <<>>
    /\ ToNumber(s).t = "num"
    /\ ToNumber(s).v \in 1..20

\* the malformed queries: q missing or empty, a top that is given and is not
\* an integer in 1..20, a lat or lng that is given and is not a finite number,
\* a sort that is given and is neither price nor closest; a top given as the
\* empty string counts as not given
Malformed(raw) ==
    \/ raw.q = Null
    \/ raw.q.t # "str"
    \/ raw.q.v = <<>>
    \/ (raw.top # Null /\ (raw.top.t # "str" \/ (raw.top.v # <<>> /\ ~DenotesTop(raw.top.v))))
    \/ (raw.lat # Null /\ (raw.lat.t # "str" \/ ~DenotesFiniteNumber(raw.lat.v)))
    \/ (raw.lng # Null /\ (raw.lng.t # "str" \/ ~DenotesFiniteNumber(raw.lng.v)))
    \/ (raw.sort # Null /\ (raw.sort.t # "str" \/ raw.sort.v \notin {StrPrice, StrClosest}))

\* C12: a request whose query is malformed is answered 400 with the errors of
\* its fields, without a shopping or geocoding call and with both caches left
\* as they were.
C12_MalformedIs400 ==
    \A r \in Requests :
        (world.kind = "input" /\ Malformed(world.raw) /\ req[r].pc # "idle") =>
            /\ req[r].status = 400
            /\ req[r].body.fieldErrors # {}
            /\ ~req[r].serpCalled
            /\ req[r].geoCalls = 0
            /\ serpCache = EmptyCache
            /\ geocodeCache = EmptyCache

\* C13: normalizeStoreName is idempotent: normalizing the store name of a row
\* again gives the same name.
C13_NormalizeIdempotent ==
    \A r \in Requests :
        \A i \in DOMAIN req[r].rough :
            LET x == RawLabelOf(r, req[r].rough[i])
            IN  normalizeStoreName(normalizeStoreName(x)) = normalizeStoreName(x)

\* the lowercase store names of the listings that survived the filters
StoresOf(rough) == {StoreKey(rough[k]) : k \in DOMAIN rough}

\* the lowest price listed for a store
MinPriceOf(rough, key) ==
    CHOOSE p \in {rough[k].price : k \in {n \in DOMAIN rough : StoreKey(rough[n]) = key}} :
        \A k \in DOMAIN rough : StoreKey(rough[k]) = key => p <= rough[k].price

\* where a store first appears among the surviving listings
FirstIndexOf(rough, key) ==
    CHOOSE k \in DOMAIN rough :
        /\ StoreKey(rough[k]) = key
        /\ \A n \in 1..(k - 1) : StoreKey(rough[n]) # key

\* the first of the cheapest listings of a store
CheapestIndexOf(rough, key) ==
    CHOOSE k \in DOMAIN rough :
        /\ StoreKey(rough[k]) = key
        /\ rough[k].price = MinPriceOf(rough, key)
        /\ \A n \in 1..(k - 1) :
               ~(StoreKey(rough[n]) = key /\ rough[n].price = MinPriceOf(rough, key))

\* store k1 comes before store k2 in the stable ascending-price order of the
\* cheapest-per-store rows
RanksBefore(rough, k1, k2) ==
    \/ MinPriceOf(rough, k1) < MinPriceOf(rough, k2)
    \/ /\ MinPriceOf(rough, k1) = MinPriceOf(rough, k2)
       /\ FirstIndexOf(rough, k1) < FirstIndexOf(rough, k2)

RequestedTop(raw) ==
    IF raw.top = Null \/ raw.top.v = <<>> THEN 5 ELSE ToNumber(raw.top.v).v

\* C15: a 200 response has at most top rows, where top is the validated value
\* of the query string, in 1..20, and 5 when the parameter is absent.
C15_AtMostTopRows ==
    \A r \in Requests :
        (world.kind = "input" /\ Answered200(r)) =>
            /\ RequestedTop(world.raw) \in 1..20
            /\ Len(req[r].body) <= RequestedTop(world.raw)

\* a closest-mode response to a query without top: six stores were geocoded and
\* five rows were sent
C15_Witness ==
    \E r \in Requests :
        /\ world.kind = "input"
        /\ Answered200(r)
        /\ world.raw.top = Null
        /\ req[r].closest
        /\ Len(req[r].rows) = 6
        /\ Len(req[r].body) = 5

\* the two runs of a comparison were asked the same thing
SameRequest(a, b) ==
    /\ req[a].q = req[b].q
    /\ req[a].city = req[b].city
    /\ req[a].top = req[b].top
    /\ req[a].lat = req[b].lat
    /\ req[a].lng = req[b].lng
    /\ req[a].sort = req[b].sort

\* C16: two runs of the same request from the same cache contents, against
\* providers that give each store the same answer, send the same status and
\* the same rows in the same order, in whatever order the geocode lookups of
\* each run complete.
C16_OrderIndependentOfInterleaving ==
    \A a, b \in Requests :
        (Quiescent(a) /\ Quiescent(b) /\ SameRequest(a, b)) =>
            /\ req[a].status = req[b].status
            /\ req[a].body = req[b].body

\* two closest-mode runs with the primary geocoder configured, each with three
\* concurrent lookups, both answered 200 with two rows
C16_Witness ==
    \E a, b \in Requests :
        /\ a # b
        /\ GOOGLE_PLACES_KEY
        /\ Quiescent(a)
        /\ Quiescent(b)
        /\ SameRequest(a, b)
        /\ req[a].closest
        /\ req[a].status = 200
        /\ req[b].status = 200
        /\ Len(req[a].rows) = 3
        /\ req[a].geoCalls >= 3
        /\ req[b].geoCalls >= 3
        /\ Len(req[b].body) = 2

\* C17: the 61st and every later request of a caller within one window is
\* answered by the limiter with 429 before the handler runs: no shopping or
\* geocoding call, no cache change; it is never handled afterwards, and a step
\* of the limiter changes nothing of the requests being handled.
C17_RateLimitedBeforeHandler ==
    [][ /\ \A r \in Requests :
              (r \notin world.seen /\ r \in world'.seen /\ world.hits >= 60) =>
                  /\ req'[r].pc = "done"
                  /\ req'[r].status = 429
                  /\ ~req'[r].serpCalled
                  /\ req'[r].geoCalls = 0
                  /\ req'[r].task = <<>>
                  /\ r \notin world'.admitted
        /\ \A r \in Requests : req[r].status = 429 => req'[r] = req[r]
        /\ world'.hits # world.hits =>
              /\ serpCache' = serpCache
              /\ geocodeCache' = geocodeCache
              /\ \A r \in Requests : req[r].pc # "idle" => req'[r] = req[r]
      ]_vars

\* one request was answered 429 while the other, admitted as the 60th, is in
\* the pause between two fallback geocoder calls
C17_Witness ==
    \E a, b \in Requests :
        /\ req[a].status = 429
        /\ req[b].pc = "sleep"
        /\ world.hits = 61

\* the state of the lookup for row i of a request: "none" before geocodeStore
\* is invoked for it
TaskAt(rec, i) == IF i \in DOMAIN rec.task THEN rec.task[i] ELSE "none"

\* the entry of the geocode cache g is what row carries after the assignments
\* that follow `await geocodeStore(...)`
RowCarries(row, g) == row.location = g.address /\ row.lat = g.lat /\ row.lng = g.lng

\* C18: geocodeStore goes cache, primary, fallback, placeholder.  In every
\* step and for every row: a lookup whose (store, city) key is in the geocode
\* cache when it is invoked returns at once, without a provider call, and a
\* lookup returns without a call only then; the primary provider is called
\* only on a miss and only if it is configured; the fallback is called only
\* after the primary gave no usable candidate, or on a miss when the primary
\* is not configured; and when a lookup returns, the hit the row receives,
\* placeholder included, is the entry of the geocode cache under its key.
C18_GeocodeStoreOrder ==
    [][\A r \in Requests : \A i \in DOMAIN req'[r].task :
         LET old    == TaskAt(req[r], i)
             new    == req'[r].task[i]
             key    == GeoKey(req'[r].rows[i].store, req'[r].city)
             cached == key \in DOMAIN geocodeCache
         IN  /\ (old = "none" /\ new # "none" /\ cached) => new = "done"
             /\ (old = "none" /\ new = "done") => cached
             /\ (old # "places" /\ new = "places") =>
                    old = "none" /\ ~cached /\ GOOGLE_PLACES_KEY
             /\ (old # "nominatim" /\ new = "nominatim") =>
                    \/ old = "places"
                    \/ old = "none" /\ ~cached /\ ~GOOGLE_PLACES_KEY
             /\ (old # "done" /\ new = "done") =>
                    /\ key \in DOMAIN geocodeCache'
                    /\ RowCarries(req'[r].rows[i], geocodeCache'[key])
      ]_vars

\* the primary was configured and gave no usable candidate, the fallback found
\* nothing either: the row carries the placeholder and the placeholder is in
\* the cache; another row of the same request was answered from the cache
C18_Witness ==
    \E r \in Requests : \E i, j \in DOMAIN req[r].task :
        LET store == req[r].rows[i].store
            key   == GeoKey(store, req[r].city)
        IN  /\ GOOGLE_PLACES_KEY
            /\ req[r].task[i] = "done"
            /\ store \in req[r].missed
            /\ key \in DOMAIN geocodeCache
            /\ geocodeCache[key] = PlaceholderHit(store)
            /\ RowCarries(req[r].rows[i], PlaceholderHit(store))
            /\ req[r].task[j] = "done"
            /\ req[r].geoCalls = 2
            /\ Len(req[r].rows) >= 2

\* C19: with no primary provider configured, in both ranking modes, the
\* lookups of a request run one after another in the order of the window,
\* which is in ascending order of price: the primary is never called, a lookup
\* begins only when all lookups for the rows before it have returned, every
\* lookup after the first begins at the firing of a timer that was set for at
\* least 1100 ms, and that timer is set in the step in which a fallback call
\* for a row other than the last one ends.
C19_SequentialWithPause ==
    [][~GOOGLE_PLACES_KEY =>
        \A r \in Requests :
          /\ \A i, j \in DOMAIN req'[r].rows :
                 i < j => req'[r].rows[i].price <= req'[r].rows[j].price
          /\ \A i \in DOMAIN req'[r].task :
               LET old == TaskAt(req[r], i)
                   new == req'[r].task[i]
               IN  /\ new # "places"
                   /\ new # "none" => \A j \in 1..(i - 1) : req'[r].task[j] = "done"
                   /\ (old = "none" /\ new # "none" /\ i > 1) =>
                          /\ req[r].pc = "sleep"
                          /\ req[r].pause >= 1100
                          /\ req[r].i = i - 1
                   /\ (old = "nominatim" /\ new = "done" /\ i < Len(req'[r].rows)) =>
                          /\ req'[r].pc = "sleep"
                          /\ req'[r].pause >= 1100
                          /\ \A j \in DOMAIN req'[r].task : req'[r].task[j] # "nominatim"
      ]_vars

\* a closest-mode request without the primary: the fallback call for the first
\* row has ended, the timer has fired and the fallback call for the second row
\* is under way
C19_Witness ==
    \E r \in Requests :
        /\ ~GOOGLE_PLACES_KEY
        /\ req[r].closest
        /\ Len(req[r].task) >= 2
        /\ req[r].task[1] = "done"
        /\ req[r].task[2] = "nominatim"
        /\ req[r].geoCalls = 2
        /\ req[r].pause = 1100
        /\ req[r].rows[1].price < req[r].rows[2].price

\* the handler of request r has built its window
HasWindow(r) == req[r].serpa # Null /\ req[r].status \notin {400, 429}

\* the size the window should have: twice the limit in price mode, three
\* times the limit in closest mode, and never more than the n rows there are
WindowSize(r, n) == Min((IF req[r].closest THEN 3 ELSE 2) * Limit(req[r]), n)

\* C20: geocoding is attempted only for the candidate window.  The window
\* has min(2*top, n) rows in price mode and min(3*top, n) rows in closest
\* mode, n being the number of deduplicated rows; its rows are deduplicated
\* rows of distinct stores, and no deduplicated row outside it is cheaper than
\* one of its rows; there is a lookup for rows of the window only, so at most
\* as many lookups as the window has rows; every row of a closest-mode
\* response is a row of the window.
C20_GeocodingOnlyForWindow ==
    \A r \in Requests :
        HasWindow(r) =>
            LET all  == dedupeCheapest(req[r].rough)
                rows == req[r].rows
                in(row) == \E i \in DOMAIN rows :
                               rows[i].store = row.store /\ rows[i].price = row.price
            IN  /\ Len(rows) = WindowSize(r, Len(all))
                /\ \A i \in DOMAIN rows : \E k \in DOMAIN all :
                       all[k].store = rows[i].store /\ all[k].price = rows[i].price
                /\ \A i, j \in DOMAIN rows : rows[i].store = rows[j].store => i = j
                /\ \A k \in DOMAIN all :
                       ~in(all[k]) => \A i \in DOMAIN rows : rows[i].price <= all[k].price
                /\ DOMAIN req[r].task = DOMAIN rows
                /\ Cardinality({i \in DOMAIN req[r].task : req[r].task[i] # "none"})
                       <= WindowSize(r, Len(all))
                /\ (Answered200(r) /\ req[r].closest) =>
                       \A b \in DOMAIN req[r].body : in(req[r].body[b])

\* a closest-mode response for top=1 when six stores were listed: three rows
\* were geocoded, three were not, one row was returned
C20_Witness ==
    \E r \in Requests :
        /\ Answered200(r)
        /\ req[r].closest
        /\ Limit(req[r]) = 1
        /\ Len(dedupeCheapest(req[r].rough)) = 6
        /\ Len(req[r].rows) = 3
        /\ Cardinality({i \in DOMAIN req[r].task : req[r].task[i] = "done"}) = 3
        /\ Len(req[r].body) = 1

\* C21: dedupeCheapest is stable on ties.  For the listings that survived the
\* filters of a request, its result has one row per lowercase store name; the
\* row kept for a store is the first listing, in input order, among those of
\* that store with the lowest price; and the rows are in the order in which
\* the store names first appear in the input.
C21_DedupeStableOnTies ==
    \A r \in Requests :
        req[r].serpa # Null =>
            LET rough == req[r].rough
                all   == dedupeCheapest(rough)
            IN  /\ Len(all) = Cardinality(StoresOf(rough))
                /\ \A p \in DOMAIN all :
                       all[p] = rough[CheapestIndexOf(rough, StoreKey(all[p]))]
                /\ \A p, q \in DOMAIN all :
                       p < q => FirstIndexOf(rough, StoreKey(all[p]))
                                    < FirstIndexOf(rough, StoreKey(all[q]))

\* three surviving listings: a store, then another store, then the first store
\* again under another spelling and at the same price as its first listing
C21_Witness ==
    \E r \in Requests :
        /\ req[r].serpa # Null
        /\ Len(req[r].rough) = 3
        /\ StoreKey(req[r].rough[1]) = StoreKey(req[r].rough[3])
        /\ StoreKey(req[r].rough[1]) # StoreKey(req[r].rough[2])
        /\ req[r].rough[1].price = req[r].rough[3].price
        /\ req[r].rough[1] # req[r].rough[3]
        /\ Len(dedupeCheapest(req[r].rough)) = 2

\* C22: an entry of the geocode cache that has coordinates is never replaced
\* by an entry without coordinates (no entry of the geocode cache expires in
\* the runs considered, so every entry is within its ttl).
C22_CoordinatesNotOverwritten ==
    [][\A k \in DOMAIN geocodeCache :
          (geocodeCache[k].lat # Null /\ geocodeCache[k].lng # Null /\ k \in DOMAIN geocodeCache')
              => (geocodeCache'[k].lat # Null /\ geocodeCache'[k].lng # Null)
      ]_vars

\* the handler of request r has read its validated query
Accepted(r) == req[r].pc # "idle" /\ req[r].status \notin {400, 429}

\* C23: cache keys are injective in their components.  Two requests with
\* different (query, city) pairs use different keys of the shopping cache, and
\* two lookups with different (store, city) pairs use different keys of the
\* geocode cache.
C23_CacheKeysInjective ==
    \A r1, r2 \in Requests :
        (Accepted(r1) /\ Accepted(r2)) =>
            /\ <<req[r1].q, req[r1].city>> # <<req[r2].q, req[r2].city>>
                   => SerpKey(req[r1].q, req[r1].city) # SerpKey(req[r2].q, req[r2].city)
            /\ \A i \in DOMAIN req[r1].rows, j \in DOMAIN req[r2].rows :
                   <<req[r1].rows[i].store, req[r1].city>> # <<req[r2].rows[j].store, req[r2].city>>
                       => GeoKey(req[r1].rows[i].store, req[r1].city)
                              # GeoKey(req[r2].rows[j].store, req[r2].city)

\* the fallback geocoder calls in flight, over all requests
FallbackCallsInFlight ==
    {<<r, i>> \in Requests \X (1..20) :
        i \in DOMAIN req[r].task /\ req[r].task[i] = "nominatim"}

\* C24: over all the requests the process is handling, at most one call to the
\* fallback geocoder is in flight.
C24_OneFallbackCallInProcess == Cardinality(FallbackCallsInFlight) <= 1

\* C25: once the response of a request has been sent, no step taken on behalf
\* of that request issues a provider call or writes a cache entry.
C25_NothingAfterResponse ==
    [][\A r \in Requests :
          (req[r].status # 0 /\ req'[r] # req[r]) =>
              /\ req'[r].geoCalls = req[r].geoCalls
              /\ req'[r].serpCalled = req[r].serpCalled
              /\ geocodeCache' = geocodeCache
              /\ serpCache' = serpCache
      ]_vars

\* C26: every request the handler takes up is answered exactly once.  A
\* response is 200, 400 or 500; once it has been sent, neither its status nor
\* its body changes; and, the calls returning and the timers firing, a request
\* the handler has taken up is eventually answered.
C26_ExactlyOneResponse ==
    /\ [][\A r \in Requests :
            /\ req'[r].status \in {0, 200, 400, 500}
            /\ req[r].status # 0 =>
                   (req'[r].status = req[r].status /\ req'[r].body = req[r].body)
         ]_vars
    /\ \A r \in Requests : (req[r].pc # "idle") ~> (req[r].status # 0)

\* the primary was configured, one lookup threw and the request was answered
\* 500; another lookup of the same request returned, and none is outstanding
C26_Witness ==
    \E r \in Requests :
        /\ GOOGLE_PLACES_KEY
        /\ req[r].status = 500
        /\ \E i, j \in DOMAIN req[r].task :
               req[r].task[i] = "threw" /\ req[r].task[j] = "done"
        /\ \A i \in DOMAIN req[r].task : req[r].task[i] \in {"threw", "done"}

\* the objects a cache entry refers to, directly or through the payload array
CacheReachable(w) ==
    (IF w.serpRef = 0 THEN {} ELSE {w.serpRef} \cup Range(w.heap[w.serpRef].elems))
        \cup {w.geoRef[k] : k \in DOMAIN w.geoRef}

\* the arrays and the row objects of a request
RowObjectsOf(w, r) ==
    (IF w.rq[r].rows = 0 THEN {} ELSE {w.rq[r].rows} \cup Range(w.heap[w.rq[r].rows].elems))
        \cup (IF w.rq[r].body = 0 THEN {} ELSE {w.rq[r].body} \cup Range(w.heap[w.rq[r].body].elems))

\* C27: handling a request never modifies an object a cache refers to; a
\* cache changes only by an entry being set to a newly created object; the
\* arrays and row objects of a request are not those of another request and
\* are not referred to by a cache.
C27_CachedValuesNotModified ==
    [][/\ \A id \in CacheReachable(world) : world'.heap[id] = world.heap[id]
       /\ world'.serpRef # world.serpRef => world'.serpRef \notin DOMAIN world.heap
       /\ \A k \in DOMAIN world'.geoRef :
              (k \notin DOMAIN world.geoRef \/ world'.geoRef[k] # world.geoRef[k])
                  => world'.geoRef[k] \notin DOMAIN world.heap
       /\ \A r1, r2 \in Requests :
              r1 # r2 => RowObjectsOf(world', r1) \cap RowObjectsOf(world', r2) = {}
       /\ \A r \in Requests : RowObjectsOf(world', r) \cap CacheReachable(world') = {}
      ]_vars

\* two requests were answered; the second built its rows from the payload
\* the first had stored and took a GeoHit from the cache; the entry of the
\* other store was set twice
C27_Witness ==
    /\ world.kind = "heap"
    /\ \A r \in Requests : world.rq[r].pc = "done"
    /\ Cardinality({id \in DOMAIN world.heap : "source" \in DOMAIN world.heap[id]}) = 2
    /\ Cardinality({id \in DOMAIN world.heap : "address" \in DOMAIN world.heap[id]}) = 3
    /\ Cardinality(DOMAIN world.geoRef) = 2

\* C28: without the primary geocoder, a request whose handling has ended and
\* whose window has k >= 1 rows has taken exactly k - 1 pauses.
C28_PausesAreWindowMinusOne ==
    \A r \in Requests :
        (~GOOGLE_PLACES_KEY /\ req[r].pc = "done" /\ HasWindow(r) /\ Len(req[r].rows) >= 1)
            => req[r].pauses = Len(req[r].rows) - 1

(***************************************************************************)
(* The mobile client: SearchScreen.snap                                    *)
(* (price-finder/App.js, lines 201-291 and 343-345; the later version of   *)
(* the screen in part_004, lines 196-334 and 385-387)                      *)
(***************************************************************************)
MaxScans == 2

MaxPresses == 3

Scans == 1..MaxScans

\* the two versions of the screen
Variants == {"App", "part_004"}

\* App.js, lines 248-250
foodKeywordsApp ==
    << <<"f","o","o","d">>,
       <<"g","r","o","c","e","r","y">>,
       <<"s","n","a","c","k">>,
       <<"b","e","v","e","r","a","g","e">>,
       <<"d","r","i","n","k">>,
       <<"s","a","u","c","e">>,
       <<"n","o","o","d","l","e">>,
       <<"p","a","s","t","a">>,
       <<"c","e","r","e","a","l">>,
       <<"b","r","e","a","d">>,
       <<"m","e","a","t">>,
       <<"d","a","i","r","y">>,
       <<"v","e","g","e","t","a","b","l","e">>,
       <<"f","r","u","i","t">>,
       <<"c","a","n","d","y">>,
       <<"c","h","o","c","o","l","a","t","e">>,
       <<"c","h","i","p">>,
       <<"c","o","o","k","i","e">> >>

\* part_004, lines 256-263: the same list with more keywords
foodKeywords ==
    foodKeywordsApp \o
    << <<"r","a","m","e","n">>,
       <<"i","n","s","t","a","n","t">>,
       <<"s","o","u","p">>,
       <<"m","e","a","l">>,
       <<"p","r","o","t","e","i","n">>,
       <<"b","a","r">>,
       <<"j","u","i","c","e">>,
       <<"s","o","d","a">>,
       <<"t","e","a">>,
       <<"c","o","f","f","e","e">>,
       <<"m","i","l","k">>,
       <<"y","o","g","u","r","t">>,
       <<"c","h","e","e","s","e">>,
       <<"b","u","t","t","e","r">>,
       <<"o","i","l">>,
       <<"s","p","i","c","e">>,
       <<"c","o","n","d","i","m","e","n","t">>,
       <<"r","i","c","e">>,
       <<"b","e","a","n">>,
       <<"n","u","t">>,
       <<"c","r","a","c","k","e","r">>,
       <<"p","o","p","c","o","r","n">>,
       <<"p","r","e","t","z","e","l">> >>

\* (product.x || ''): a missing field reads as the empty string
Text(v) == IF v = Null THEN <<>> ELSE v.v

AnyFieldIncludes(product, fields, keywords) ==
    \E k \in DOMAIN keywords : \E f \in fields :
        ContainsCI(toLowerCase(Text(Get(product, f))), keywords[k])

\* App.js, lines 244-256: category, name and description are searched
isFoodItemApp(product) ==
    AnyFieldIncludes(product, {"category", "name", "description"}, foodKeywordsApp)

\* part_004, lines 250-270: the brand is searched too
isFoodItem(product) ==
    AnyFieldIncludes(product, {"category", "name", "description", "brand"}, foodKeywords)

IsFood(variant, product) ==
    IF variant = "App" THEN isFoodItemApp(product) ELSE isFoodItem(product)

\* [brand, name].filter(Boolean).join(' ').trim()
SearchQuery(product) ==
    LET b == Text(Get(product, "brand"))
        n == Text(Get(product, "name"))
    IN  trim(IF b = <<>> THEN n ELSE IF n = <<>> THEN b ELSE b \o <<" ">> \o n)

ProductCola ==
    [category |-> Str(<<"B","e","v","e","r","a","g","e">>), name |-> Str(<<"C","o","l","a">>),
     brand |-> Str(<<"C","o","k","e">>)]

ProductPhone ==
    [category |-> Str(<<"E","l","e","c","t","r","o","n","i","c","s">>), name |-> Str(<<"P","h","o","n","e">>)]

ProductBarbell ==
    [category |-> Str(<<"F","i","t","n","e","s","s">>), name |-> Str(<<"B","a","r","b","e","l","l">>)]

ProductUnnamedSnack ==
    [category |-> Str(<<"S","n","a","c","k">>), name |-> Str(<<" ">>)]

Products == {ProductCola, ProductPhone, ProductBarbell, ProductUnnamedSnack}

\* what POST /api/identify can answer: no answer, an error status, or a body
IdentifyResponses ==
    {[kind |-> "threw"], [kind |-> "status"]} \cup
    {[kind |-> "json", success |-> b, item |-> it] : b \in BOOLEAN, it \in {Null} \cup Products}

\* what GET /v1/prices/search can answer; rows is null or a list
PricesResponses ==
    {[kind |-> "threw"], [kind |-> "status"]} \cup
    {[kind |-> "json", rows |-> rows] : rows \in {Null, Str(<<>>), Str(<<"row">>), Str(<<"row","row">>)}}

IdleScan ==
    [pc |-> "idle", path |-> "none", product |-> Null, food |-> FALSE, q |-> <<>>,
     coords |-> FALSE, prices |-> "none", rows |-> Null]

ClientWorld(variant) ==
    [kind |-> "client", items |-> <<>>, variant |-> variant, cam |-> FALSE,
     loading |-> FALSE, rendered |-> FALSE, result |-> Null, screen |-> "Search",
     navs |-> <<>>, presses |-> 0, scan |-> [s \in Scans |-> IdleScan]]

ClientFrame == UNCHANGED <<GOOGLE_PLACES_KEY, serpCache, geocodeCache, req, serpExpired>>

\* a scan leaves snap by the named path
ScanEnds(c, s, path) == [c EXCEPT !.scan[s].pc = "done", !.scan[s].path = path]

\* App.js, lines 285-290: catch, then finally setLoading(false)
ScanFailsApp(c, s) == [ScanEnds(c, s, "error") EXCEPT !.loading = FALSE]

\* part_004, lines 328-333: setLoading(false); setResult(null)
ScanFails(c, s) == [ScanEnds(c, s, "error") EXCEPT !.loading = FALSE, !.result = Null]

Throw(c, s) == IF c.variant = "App" THEN ScanFailsApp(c, s) ELSE ScanFails(c, s)

\* navigation.navigate('Results', { rows, query: q, productInfo: product })
Navigate(c, s) ==
    [c EXCEPT !.screen = "Results",
              !.navs = Append(@, [scan |-> s, rows |-> c.scan[s].rows, query |-> c.scan[s].q,
                                  productInfo |-> c.scan[s].product])]

\* App.js, lines 258-263: setResult(null), return through finally
NonFoodApp(c, s) == [ScanEnds(c, s, "nonfood") EXCEPT !.result = Null, !.loading = FALSE]

NonFoodKeepsLoading(c, s) == ScanEnds(c, s, "nonfood")

\* part_004, lines 272-280: setLoading(false), return
NonFood(c, s) == [ScanEnds(c, s, "nonfood") EXCEPT !.loading = FALSE]

\* App.js, lines 241-269: the identify answer is checked, the product is
\* classified and the query is built
AfterIdentifyApp(c, s, resp) ==
    IF resp.kind # "json" \/ ~resp.success \/ resp.item = Null THEN ScanFailsApp(c, s)
    ELSE LET seen == [c EXCEPT !.scan[s].product = resp.item,
                               !.scan[s].food = isFoodItemApp(resp.item)]
         IN  IF ~isFoodItemApp(resp.item) THEN NonFoodApp(seen, s)
             ELSE LET shown == [seen EXCEPT !.result = resp.item]
                  IN  IF SearchQuery(resp.item) = <<>> THEN ScanFailsApp(shown, s)
                      ELSE [shown EXCEPT !.scan[s].q = SearchQuery(resp.item),
                                         !.scan[s].pc = "coords"]

\* part_004, lines 236-288
AfterIdentify(c, s, resp) ==
    IF resp.kind # "json" \/ ~resp.success \/ resp.item = Null THEN ScanFails(c, s)
    ELSE LET seen == [c EXCEPT !.scan[s].product = resp.item,
                               !.scan[s].food = isFoodItem(resp.item)]
         IN  IF ~isFoodItem(resp.item) THEN NonFood(seen, s)
             ELSE IF SearchQuery(resp.item) = <<>> THEN ScanFails(seen, s)
             ELSE [seen EXCEPT !.scan[s].q = SearchQuery(resp.item), !.scan[s].pc = "coords"]

\* App.js, lines 280-290: any answered body is passed on to Results
AfterPricesApp(c, s, resp) ==
    IF resp.kind # "json" THEN ScanFailsApp([c EXCEPT !.scan[s].prices = "failed"], s)
    ELSE LET got == [c EXCEPT !.scan[s].prices = "ok", !.scan[s].rows = resp.rows]
             path == IF resp.rows = Null \/ resp.rows = Str(<<>>) THEN "empty" ELSE "success"
         IN  [ScanEnds(Navigate(got, s), s, path) EXCEPT !.loading = FALSE]

\* part_004, lines 303-326: no rows end the scan; otherwise the product is
\* shown and the navigation is scheduled
AfterPrices(c, s, resp) ==
    IF resp.kind # "json" THEN ScanFails([c EXCEPT !.scan[s].prices = "failed"], s)
    ELSE LET got == [c EXCEPT !.scan[s].prices = "ok", !.scan[s].rows = resp.rows]
         IN  IF resp.rows = Null \/ resp.rows = Str(<<>>)
             THEN [ScanEnds(got, s, "empty") EXCEPT !.loading = FALSE]
             ELSE [got EXCEPT !.result = got.scan[s].product, !.loading = FALSE,
                              !.scan[s].pc = "timer", !.scan[s].path = "success"]

FreeScan(c) == CHOOSE s \in Scans : c.scan[s].pc = "idle" /\ \A t \in Scans : t < s => c.scan[t].pc # "idle"

\* lines 222-224 (App.js) and 219-220 (part_004): the guard, then
\* setLoading(true); the update made inside the press handler is rendered
\* before the next event is handled
snap(c) ==
    IF ~c.cam \/ c.rendered THEN c
    ELSE [c EXCEPT !.loading = TRUE, !.rendered = TRUE, !.scan[FreeScan(c)].pc = "photo"]

\* the CameraView mounts and camRef.current is set
CameraReady ==
    /\ world.kind = "client"
    /\ ~world.cam
    /\ world' = [world EXCEPT !.cam = TRUE]
    /\ ClientFrame

\* the shutter is pressed
Press ==
    /\ world.kind = "client"
    /\ world.screen = "Search"
    /\ world.presses < MaxPresses
    /\ \E s \in Scans : world.scan[s].pc = "idle"
    /\ world' = snap([world EXCEPT !.presses = @ + 1])
    /\ ClientFrame

\* takePictureAsync resolves or rejects
PhotoReturn(s) ==
    /\ world.kind = "client"
    /\ world.scan[s].pc = "photo"
    /\ \E ok \in BOOLEAN :
          world' = IF ok THEN [world EXCEPT !.scan[s].pc = "identify"] ELSE Throw(world, s)
    /\ ClientFrame

IdentifyReturn(s) ==
    /\ world.kind = "client"
    /\ world.scan[s].pc = "identify"
    /\ \E resp \in IdentifyResponses :
          world' = IF world.variant = "App" THEN AfterIdentifyApp(world, s, resp)
                                            ELSE AfterIdentify(world, s, resp)
    /\ ClientFrame

\* getCoords answers with coordinates or null, never throws
CoordsReturn(s) ==
    /\ world.kind = "client"
    /\ world.scan[s].pc = "coords"
    /\ \E coords \in BOOLEAN :
          world' = [world EXCEPT !.scan[s].coords = coords, !.scan[s].pc = "prices"]
    /\ ClientFrame

PricesReturn(s) ==
    /\ world.kind = "client"
    /\ world.scan[s].pc = "prices"
    /\ \E resp \in PricesResponses :
          world' = IF world.variant = "App" THEN AfterPricesApp(world, s, resp)
                                            ELSE AfterPrices(world, s, resp)
    /\ ClientFrame

\* part_004, lines 323-326: the timer set on success fires
NavTimer(s) ==
    /\ world.kind = "client"
    /\ world.scan[s].pc = "timer"
    /\ world' = [Navigate(world, s) EXCEPT !.result = Null, !.scan[s].pc = "done"]
    /\ ClientFrame

\* the screen is rendered again after a state update made outside a handler
Render ==
    /\ world.kind = "client"
    /\ world.rendered # world.loading
    /\ world' = [world EXCEPT !.rendered = world.loading]
    /\ ClientFrame

\* the user switches back to the Search tab
GoBack ==
    /\ world.kind = "client"
    /\ world.screen = "Results"
    /\ world' = [world EXCEPT !.screen = "Search"]
    /\ ClientFrame

NextClient ==
    \/ CameraReady
    \/ Press
    \/ \E s \in Scans : PhotoReturn(s)
    \/ \E s \in Scans : IdentifyReturn(s)
    \/ \E s \in Scans : CoordsReturn(s)
    \/ \E s \in Scans : PricesReturn(s)
    \/ \E s \in Scans : NavTimer(s)
    \/ Render
    \/ GoBack

InitClient == \E v \in Variants : InitWith(ClientWorld(v), {FALSE}, {EmptyCache})

SpecClient == InitClient /\ [][NextClient]_vars

InProgress == {"photo", "identify", "coords", "prices"}

ScansInProgress == {s \in Scans : world.scan[s].pc \in InProgress}

\* C29: a press while loading is true starts no scan; loading is true
\* exactly while a scan is in progress, so every scan that starts ends with
\* loading false on each of its paths; and every navigation to Results
\* belongs to a scan whose product was classified as food and whose prices
\* call was answered
C29_ScanLoadingAndNavigation ==
    /\ [](world.loading <=> ScansInProgress # {})
    /\ [](Cardinality(ScansInProgress) <= 1)
    /\ [](\A i \in DOMAIN world.navs :
             LET sc == world.scan[world.navs[i].scan]
             IN  sc.food /\ sc.prices = "ok" /\ IsFood(world.variant, world.navs[i].productInfo))
    /\ [][/\ (world.loading /\ world'.presses # world.presses)
               => world'.scan = world.scan
          /\ \A s \in Scans :
               (world.scan[s].pc \in InProgress /\ world'.scan[s].pc \notin InProgress)
                   => ~world'.loading]_vars

\* a press was ignored, one scan ended as non-food and one navigated
C29_Witness ==
    /\ world.presses > Cardinality({s \in Scans : world.scan[s].pc # "idle"})
    /\ \E s \in Scans : world.scan[s].path = "nonfood"
    /\ \E s \in Scans : world.scan[s].path = "success" /\ world.scan[s].pc = "done"
    /\ world.navs # <<>>
    /\ ~world.loading

(***************************************************************************)
(* The identification server: POST /api/identify (server.js, lines 16-50)  *)
(* and identifyItem (part_001, lines 7-40)                                 *)
(***************************************************************************)
\* !v for the values a JSON body field or an environment variable can hold
Falsy(v) == v = Null \/ v = Str(<<>>) \/ v = Num(0)

ImageData == Str(<<"/","9","j","/">>)

\* req.body as parsed by express.json: an object with or without an image
IdentifyBodies ==
    { EmptyObject, [image |-> Null], [image |-> Str(<<>>)], [image |-> ImageData],
      [image |-> Num(1)], [photo |-> ImageData] }

\* process.env.GEMINI_API_KEY: unset, empty or set
GeminiKeys == {Null, Str(<<>>), Str(<<"k","e","y">>)}

ErrNoImage == "No image provided"

ErrConfiguration == "Server configuration error"

\* what ai.models.generateContent can do: reject, or resolve with a text
\* that is raw JSON, JSON in a code fence, or missing
GenerateOutcomes ==
    { [kind |-> "rejected", message |-> "generateContent failed"],
      [kind |-> "text", json |-> TRUE, value |-> ProductCola],
      [kind |-> "text", json |-> TRUE, value |-> Null],
      [kind |-> "text", json |-> FALSE, value |-> Null] }

\* part_001, lines 33-39: the awaited call, then JSON.parse(response.text)
identifyItem(out) ==
    IF out.kind = "rejected" THEN [threw |-> TRUE, message |-> out.message, value |-> Null]
    ELSE IF ~out.json THEN [threw |-> TRUE, message |-> "Unexpected token", value |-> Null]
    ELSE [threw |-> FALSE, message |-> "", value |-> out.value]

IdleIdentify ==
    [pc |-> "idle", body |-> EmptyObject, status |-> 0, success |-> FALSE, error |-> "",
     item |-> Null, threw |-> FALSE]

IdentifyWorld(key) ==
    [kind |-> "identify", items |-> <<>>, GEMINI_API_KEY |-> key, calls |-> <<>>,
     rq |-> [r \in Requests |-> IdleIdentify]]

\* res.status(code).json({ success: false, error })
IdentifyError(q, code, message) ==
    [q EXCEPT !.pc = "done", !.status = code, !.success = FALSE, !.error = message]

\* server.js, lines 37-40: res.json({ success: true, item: itemInfo })
IdentifyOk(q, itemInfo) ==
    [q EXCEPT !.pc = "done", !.status = 200, !.success = TRUE, !.item = itemInfo]

IdentifyCatchUnanswered(q, message) == [q EXCEPT !.pc = "done", !.threw = TRUE]

\* server.js, lines 42-48: the catch block
IdentifyCatch(q, message) == IdentifyError([q EXCEPT !.threw = TRUE], 500, message)

\* server.js, lines 17-35: the handler up to the await of identifyItem
IdentifyPost(r) ==
    /\ world.kind = "identify"
    /\ world.rq[r].pc = "idle"
    /\ \E body \in IdentifyBodies :
          LET q == [world.rq[r] EXCEPT !.body = body]
              image == Get(body, "image")
          IN  world' =
                IF Falsy(image)
                THEN [world EXCEPT !.rq[r] = IdentifyError(q, 400, ErrNoImage)]
                ELSE IF Falsy(world.GEMINI_API_KEY)
                THEN [world EXCEPT !.rq[r] = IdentifyError(q, 500, ErrConfiguration)]
                ELSE [world EXCEPT !.rq[r] = [q EXCEPT !.pc = "identifying"],
                                   !.calls = Append(@, [request |-> r, image |-> image,
                                                        apiKey |-> world.GEMINI_API_KEY])]
    /\ ClientFrame

\* identifyItem settles: its value is sent, or its exception is caught
IdentifyItemReturn(r) ==
    /\ world.kind = "identify"
    /\ world.rq[r].pc = "identifying"
    /\ \E out \in GenerateOutcomes :
          LET res == identifyItem(out)
          IN  world' = [world EXCEPT !.rq[r] =
                           IF res.threw THEN IdentifyCatch(@, res.message)
                                        ELSE IdentifyOk(@, res.value)]
    /\ ClientFrame

NextIdentify ==
    \/ \E r \in Requests : IdentifyPost(r)
    \/ \E r \in Requests : IdentifyItemReturn(r)

InitIdentify == \E key \in GeminiKeys : InitWith(IdentifyWorld(key), {FALSE}, {EmptyCache})

SpecIdentify == InitIdentify /\ [][NextIdentify]_vars

CalledFor(r) == \E i \in DOMAIN world.calls : world.calls[i].request = r

\* C30: identifyItem is called only for a body with an image and with the
\* key configured; a missing image is answered 400 and a missing key 500,
\* both with success false and without a call; an exception of identifyItem
\* is answered 500 with success false
C30_IdentifyEndpoint ==
    /\ \A i \in DOMAIN world.calls :
          ~Falsy(world.calls[i].image) /\ ~Falsy(world.GEMINI_API_KEY)
    /\ \A r \in Requests :
          LET q == world.rq[r]
              image == Get(q.body, "image")
          IN  /\ (q.pc # "idle" /\ Falsy(image))
                  => (q.pc = "done" /\ q.status = 400 /\ ~q.success /\ ~CalledFor(r))
              /\ (q.pc # "idle" /\ ~Falsy(image) /\ Falsy(world.GEMINI_API_KEY))
                  => (q.pc = "done" /\ q.status = 500 /\ ~q.success /\ ~CalledFor(r))
              /\ q.threw => (q.status = 500 /\ ~q.success)
              /\ q.pc = "done" => q.status \in {200, 400, 500}

\* one request had no image, the other's identification threw
C30_Witness ==
    /\ \E r \in Requests : world.rq[r].status = 400
    /\ \E r \in Requests : world.rq[r].threw /\ world.rq[r].pc = "done"

=============================================================================
